---- MODULE Spec2Model ----
(***************************************************************************)
(* Ledger engine and flow handlers of accountbot.                          *)
(*                                                                         *)
(* The store is Firestore: the accounts collection (one document per slug, *)
(* holding the balance) and the transactions collection (documents in      *)
(* commit order; a document's id is its position).  A db.runTransaction    *)
(* call is two steps of the calling process: one run of the update         *)
(* function (its reads and its validation; a throw ends the call without   *)
(* writes) and the commit of the buffered writes, which Firestore accepts  *)
(* only when nothing the run has read was written since, and otherwise     *)
(* answers by running the update function again.                           *)
(*                                                                         *)
(* Timestamp.now() is taken inside the run that commits, so on one account *)
(* creation order is commit order; createdAt is the commit's sequence      *)
(* number, shared by the documents of one commit.  description and         *)
(* createdByName are payload that no decision reads; they are left out.    *)
(***************************************************************************)
EXTENDS Integers, Sequences, FiniteSets, TLC

\* ---------------------------------------------------------------- bounds
MaxCommits == 3
MaxAttempts == 2
MaxFlowWrites == 2

\* ------------------------------------------------------------ input sets
Slugs == {"cash", "card", "bank"}
GhostSlug == "ghost"
Actors == {"u1", "u2"}
Procs == {1, 2}

\* Who calls the two cancellation functions directly (the confirm callback
\* calls them for the author of the transaction).
ApiCallers == {"u1"}

NoId == 0
NoTime == 0

\* The currency of each account: cash in one, card and bank in another.
AccountCurrency(slug) == IF slug = "cash" THEN "EUR" ELSE "USD"

\* The calls the engine's callers make: data of createTransactionAndUpdateBalance
\* and of createTransferAndUpdateBalances (amounts of either sign, a slug
\* that resolves to no account, a transfer inside one account).
RecordCalls ==
  { [slug |-> "cash", amount |-> 3, source |-> "manual", actor |-> "u1"],
    [slug |-> "cash", amount |-> -2, source |-> "sync", actor |-> "u2"],
    [slug |-> GhostSlug, amount |-> 3, source |-> "manual", actor |-> "u1"] }

TransferCalls ==
  { [from |-> "cash", to |-> "card", fromAmount |-> 3, toAmount |-> -4,
     actor |-> "u1"],
    [from |-> "card", to |-> "cash", fromAmount |-> -2, toAmount |-> 5,
     actor |-> "u2"],
    [from |-> "cash", to |-> "cash", fromAmount |-> 3, toAmount |-> 4,
     actor |-> "u1"],
    [from |-> "cash", to |-> GhostSlug, fromAmount |-> 3, toAmount |-> 3,
     actor |-> "u1"],
    [from |-> GhostSlug, to |-> "card", fromAmount |-> 3, toAmount |-> 3,
     actor |-> "u2"] }

VARIABLES
  balance,        \* accounts: slug -> balance (minor units)
  ver,            \* accounts: slug -> number of commits that wrote the document
  txns,           \* transactions collection, in commit order
  pc,             \* process -> "idle" | "run" | "commit"
  req,            \* process -> the engine call it is executing
  loc,            \* process -> what the last run of the update function read
  outcome,        \* how the most recently finished call or handler ended
                  \* (a failed record call: with the slugs it was given; a
                  \* flow start: with the step of the session it cleaned up)
  sessions        \* sessions collection: session key -> session

vars == <<balance, ver, txns, pc, req, loc, outcome, sessions>>

NoReq == [op |-> "none", slug |-> "", toSlug |-> "", amount |-> 0,
          toAmount |-> 0, source |-> "", id |-> NoId, actor |-> "",
          sessionKey |-> <<>>, next |-> "idle", text |-> <<>>,
          newBalanceMinor |-> 0]
NoLoc == [fromBal |-> 0, toBal |-> 0, fromVer |-> 0, toVer |-> 0,
          linked |-> NoId, originalCancelledAt |-> NoTime,
          linkedCancelledAt |-> NoTime, attempts |-> 0]
NoSession == [step |-> "none", accountSlug |-> "", amount |-> 0,
              createdById |-> "", fromAccountSlug |-> "", toAccountSlug |-> "",
              hasReceivedAmount |-> FALSE, receivedAmount |-> 0]

\* The one chat the events come from.
ChatId == "chat"

\* getSessionKey leaving the user out: one session document per chat.
getSessionKey_ChatOnly(chatId, userId) == <<chatId>>

getSessionKey(chatId, userId) == <<chatId, userId>>

SessionKeys == {getSessionKey(ChatId, u) : u \in Actors}
NoOutcome == [op |-> "none", status |-> "none", target |-> NoId,
              retried |-> FALSE, slugs |-> <<>>, cleaned |-> "none", buttons |-> <<>>]

Abs(x) == IF x < 0 THEN -x ELSE x

TxnIds == 1..Len(txns)

\* A transaction document as the engine writes it.
Transaction(slug, amount, currency, source, now, actor, balAfter, linkedId, ttype, cancelledId) ==
  [accountSlug |-> slug, amount |-> amount, currency |-> currency,
   source |-> source, createdAt |-> now, createdById |-> actor,
   hasBalanceAfter |-> TRUE, balanceAfter |-> balAfter,
   linkedTransactionId |-> linkedId, transferType |-> ttype,
   cancelledTransactionId |-> cancelledId,
   cancelledAt |-> NoTime, cancelledByTxnId |-> NoId]

RECURSIVE SumOver(_, _)
SumOver(S, f) ==
  IF S = {} THEN 0
  ELSE LET x == CHOOSE y \in S : TRUE IN f[x] + SumOver(S \ {x}, f)

\* Commits so far (each stamps its documents with a createdAt of its own)
\* and calls that are on their way to one.
NumCommits == Cardinality({txns[i].createdAt : i \in TxnIds})

NumPending == Cardinality({p \in Procs : pc[p] # "idle"})

\* At most MaxCommits calls commit: no further call starts beyond that.
CanStart == NumCommits + NumPending < MaxCommits

\* A call runs as the first process that has none.
Free(p) == pc[p] = "idle" /\ \A q \in Procs : q < p => pc[q] # "idle"

Init ==
  /\ balance = [s \in Slugs |-> 0]
  /\ ver = [s \in Slugs |-> 0]
  /\ txns = <<>>
  /\ pc = [p \in Procs |-> "idle"]
  /\ req = [p \in Procs |-> NoReq]
  /\ loc = [p \in Procs |-> NoLoc]
  /\ outcome = NoOutcome
  /\ sessions = [k \in SessionKeys |-> NoSession]

\* ------------------------------------- engine: the update function's run
\* The error the update function throws on the current store, or "ok".
recordTransactionCheck(r) ==
  IF r.slug \notin Slugs THEN "AccountNotFound" ELSE "ok"

\* recordTransferCheck without the check of the destination: reading the
\* first document of its empty query result throws a TypeError.
recordTransferCheck_DestinationUnchecked(r) ==
  IF r.slug \notin Slugs THEN "AccountNotFound"
  ELSE IF r.toSlug \notin Slugs THEN "TypeError"
  ELSE "ok"

recordTransferCheck(r) ==
  IF r.slug \notin Slugs THEN "AccountNotFound"
  ELSE IF r.toSlug \notin Slugs THEN "AccountNotFound"
  ELSE "ok"

\* cancelTransactionCheck without the check of cancelledAt.
cancelTransactionCheck_NoCancelledAt(r) ==
  IF r.id \notin TxnIds THEN "TransactionNotFound"
  ELSE IF txns[r.id].source = "cancellation" THEN "InvalidCancellationTarget"
  ELSE IF txns[r.id].accountSlug \notin Slugs THEN "AccountNotFound"
  ELSE "ok"

\* cancelTransactionCheck without the check of the source.
cancelTransactionCheck_NoSource(r) ==
  IF r.id \notin TxnIds THEN "TransactionNotFound"
  ELSE IF txns[r.id].cancelledAt # NoTime THEN "AlreadyCancelled"
  ELSE IF txns[r.id].accountSlug \notin Slugs THEN "AccountNotFound"
  ELSE "ok"

cancelTransactionCheck(r) ==
  IF r.id \notin TxnIds THEN "TransactionNotFound"
  ELSE IF txns[r.id].source = "cancellation" THEN "InvalidCancellationTarget"
  ELSE IF txns[r.id].cancelledAt # NoTime THEN "AlreadyCancelled"
  ELSE IF txns[r.id].accountSlug \notin Slugs THEN "AccountNotFound"
  ELSE "ok"

\* cancelTransferCheck looking at the cancelledAt of the given leg only.
cancelTransferCheck_GivenLegOnly(r) ==
  IF r.id \notin TxnIds THEN "TransactionNotFound"
  ELSE IF txns[r.id].source # "transfer"
          \/ txns[r.id].linkedTransactionId = NoId THEN "NotATransfer"
  ELSE IF txns[r.id].linkedTransactionId \notin TxnIds
       THEN "TransactionNotFound"
  ELSE IF txns[r.id].cancelledAt # NoTime THEN "AlreadyCancelled"
  ELSE IF txns[r.id].accountSlug \notin Slugs
          \/ txns[txns[r.id].linkedTransactionId].accountSlug \notin Slugs
       THEN "AccountNotFound"
  ELSE "ok"

\* cancelTransferCheck looking at the cancelledAt of the linked leg only.
cancelTransferCheck_LinkedLegOnly(r) ==
  IF r.id \notin TxnIds THEN "TransactionNotFound"
  ELSE IF txns[r.id].source # "transfer"
          \/ txns[r.id].linkedTransactionId = NoId THEN "NotATransfer"
  ELSE IF txns[r.id].linkedTransactionId \notin TxnIds
       THEN "TransactionNotFound"
  ELSE IF txns[txns[r.id].linkedTransactionId].cancelledAt # NoTime
       THEN "AlreadyCancelled"
  ELSE IF txns[r.id].accountSlug \notin Slugs
          \/ txns[txns[r.id].linkedTransactionId].accountSlug \notin Slugs
       THEN "AccountNotFound"
  ELSE "ok"

\* cancelTransferCheck taking every transaction with a link for a transfer leg.
cancelTransferCheck_LinkOnly(r) ==
  IF r.id \notin TxnIds THEN "TransactionNotFound"
  ELSE IF txns[r.id].linkedTransactionId = NoId THEN "NotATransfer"
  ELSE IF txns[r.id].linkedTransactionId \notin TxnIds
       THEN "TransactionNotFound"
  ELSE IF txns[r.id].cancelledAt # NoTime
          \/ txns[txns[r.id].linkedTransactionId].cancelledAt # NoTime
       THEN "AlreadyCancelled"
  ELSE IF txns[r.id].accountSlug \notin Slugs
          \/ txns[txns[r.id].linkedTransactionId].accountSlug \notin Slugs
       THEN "AccountNotFound"
  ELSE "ok"

cancelTransferCheck(r) ==
  IF r.id \notin TxnIds THEN "TransactionNotFound"
  ELSE IF txns[r.id].source # "transfer"
          \/ txns[r.id].linkedTransactionId = NoId THEN "NotATransfer"
  ELSE IF txns[r.id].linkedTransactionId \notin TxnIds
       THEN "TransactionNotFound"
  ELSE IF txns[r.id].cancelledAt # NoTime
          \/ txns[txns[r.id].linkedTransactionId].cancelledAt # NoTime
       THEN "AlreadyCancelled"
  ELSE IF txns[r.id].accountSlug \notin Slugs
          \/ txns[txns[r.id].linkedTransactionId].accountSlug \notin Slugs
       THEN "AccountNotFound"
  ELSE "ok"

Check(r) ==
  CASE r.op = "recordTransaction" -> recordTransactionCheck(r)
    [] r.op = "recordTransfer" -> recordTransferCheck(r)
    [] r.op = "cancelTransaction" -> cancelTransactionCheck(r)
    [] r.op = "cancelTransfer" -> cancelTransferCheck(r)

\* The two account documents the update function reads (the second equals
\* the first when the call reads one account only).
FromSlug(r) ==
  IF r.op \in {"recordTransaction", "recordTransfer"} THEN r.slug
  ELSE txns[r.id].accountSlug

ToSlug(r) ==
  CASE r.op = "recordTransfer" -> r.toSlug
    [] r.op = "cancelTransfer" ->
         txns[txns[r.id].linkedTransactionId].accountSlug
    [] OTHER -> FromSlug(r)

\* One run of the update function of call r by process p, the attempts-th.
RunUpdateFunction(p, r, attempts) ==
  LET err == Check(r)
  IN IF err # "ok"
     THEN /\ pc' = [pc EXCEPT ![p] = "idle"]
          /\ req' = [req EXCEPT ![p] = NoReq]
          /\ loc' = [loc EXCEPT ![p] = NoLoc]
          /\ outcome' = [op |-> r.op, status |-> err, target |-> r.id,
                         retried |-> attempts > 1,
                         slugs |-> IF r.op = "recordTransaction"
                                   THEN <<r.slug>>
                                   ELSE IF r.op = "recordTransfer"
                                   THEN <<r.slug, r.toSlug>>
                                   ELSE <<>>,
                         cleaned |-> "none", buttons |-> <<>>]
     ELSE /\ pc' = [pc EXCEPT ![p] = "commit"]
          /\ req' = [req EXCEPT ![p] = r]
          /\ loc' = [loc EXCEPT ![p] =
               [fromBal |-> balance[FromSlug(r)],
                toBal |-> balance[ToSlug(r)],
                fromVer |-> ver[FromSlug(r)],
                toVer |-> ver[ToSlug(r)],
                linked |-> IF r.op = "cancelTransfer"
                           THEN txns[r.id].linkedTransactionId ELSE NoId,
                originalCancelledAt |->
                  IF r.op \in {"cancelTransaction", "cancelTransfer"}
                  THEN txns[r.id].cancelledAt ELSE NoTime,
                linkedCancelledAt |->
                  IF r.op = "cancelTransfer"
                  THEN txns[txns[r.id].linkedTransactionId].cancelledAt
                  ELSE NoTime,
                attempts |-> attempts]]
          /\ UNCHANGED outcome

\* ------------------------------------------------- engine: the four calls
createTransactionAndUpdateBalance(p, data) ==
  /\ Free(p)
  /\ CanStart
  /\ RunUpdateFunction(p, [NoReq EXCEPT !.op = "recordTransaction",
                             !.slug = data.slug, !.amount = data.amount,
                             !.source = data.source, !.actor = data.actor], 1)
  /\ UNCHANGED <<balance, ver, txns, sessions>>

createTransferAndUpdateBalances(p, data) ==
  /\ Free(p)
  /\ CanStart
  /\ RunUpdateFunction(p, [NoReq EXCEPT !.op = "recordTransfer",
                             !.slug = data.from, !.toSlug = data.to,
                             !.amount = data.fromAmount,
                             !.toAmount = data.toAmount,
                             !.actor = data.actor], 1)
  /\ UNCHANGED <<balance, ver, txns, sessions>>

createCancellationAndUpdateBalance(p, originalTxnId, createdById) ==
  /\ Free(p)
  /\ CanStart
  /\ RunUpdateFunction(p, [NoReq EXCEPT !.op = "cancelTransaction",
                             !.id = originalTxnId, !.actor = createdById], 1)
  /\ UNCHANGED <<balance, ver, txns, sessions>>

createTransferCancellation(p, originalTxnId, createdById) ==
  /\ Free(p)
  /\ CanStart
  /\ RunUpdateFunction(p, [NoReq EXCEPT !.op = "cancelTransfer",
                             !.id = originalTxnId, !.actor = createdById], 1)
  /\ UNCHANGED <<balance, ver, txns, sessions>>

\* ------------------------------------------------ engine: the commit
\* A commit that validates nothing (reads made outside the transaction).
ReadsUnchanged_Unvalidated(p) == TRUE

\* Nothing the run has read was written since.
ReadsUnchanged(p) ==
  LET r == req[p] IN
  /\ ver[FromSlug(r)] = loc[p].fromVer
  /\ ver[ToSlug(r)] = loc[p].toVer
  /\ r.op \in {"cancelTransaction", "cancelTransfer"}
       => txns[r.id].cancelledAt = loc[p].originalCancelledAt
  /\ r.op = "cancelTransfer"
       => txns[loc[p].linked].cancelledAt = loc[p].linkedCancelledAt

\* The documents each update function writes; r is the call, l what the
\* run has read, n the number of documents before the commit.
\* recordTransactionDocs storing the balance read as balanceAfter.
recordTransactionDocs_BalanceBefore(r, l, n) ==
  <<Transaction(r.slug, r.amount, AccountCurrency(r.slug), r.source,
                n + 1, r.actor, l.fromBal, NoId, "none", NoId)>>

recordTransactionDocs(r, l, n) ==
  <<Transaction(r.slug, r.amount, AccountCurrency(r.slug), r.source,
                n + 1, r.actor, l.fromBal + r.amount, NoId, "none", NoId)>>

\* recordTransferDocs taking the amounts with the signs they came with.
recordTransferDocs_Signed(r, l, n) ==
  <<Transaction(r.slug, -r.amount, AccountCurrency(r.slug),
                "transfer", n + 1, r.actor,
                l.fromBal - r.amount, n + 2, "outgoing", NoId),
    Transaction(r.toSlug, r.toAmount, AccountCurrency(r.toSlug),
                "transfer", n + 1, r.actor,
                l.toBal + r.toAmount, n + 1, "incoming", NoId)>>

\* recordTransferDocs linking the incoming leg to itself.
recordTransferDocs_OneWayLink(r, l, n) ==
  <<Transaction(r.slug, -Abs(r.amount), AccountCurrency(r.slug),
                "transfer", n + 1, r.actor,
                l.fromBal - Abs(r.amount), n + 2, "outgoing", NoId),
    Transaction(r.toSlug, Abs(r.toAmount), AccountCurrency(r.toSlug),
                "transfer", n + 1, r.actor,
                l.toBal + Abs(r.toAmount), n + 2, "incoming", NoId)>>

recordTransferDocs(r, l, n) ==
  <<Transaction(r.slug, -Abs(r.amount), AccountCurrency(r.slug),
                "transfer", n + 1, r.actor,
                l.fromBal - Abs(r.amount), n + 2, "outgoing", NoId),
    Transaction(r.toSlug, Abs(r.toAmount), AccountCurrency(r.toSlug),
                "transfer", n + 1, r.actor,
                l.toBal + Abs(r.toAmount), n + 1, "incoming", NoId)>>

\* cancelTransactionDocs repeating the original's amount.
cancelTransactionDocs_NotNegated(r, l, n) ==
  <<Transaction(txns[r.id].accountSlug, txns[r.id].amount,
                txns[r.id].currency, "cancellation", n + 1, r.actor,
                l.fromBal + txns[r.id].amount, NoId, "none", r.id)>>

cancelTransactionDocs(r, l, n) ==
  <<Transaction(txns[r.id].accountSlug, -txns[r.id].amount,
                txns[r.id].currency, "cancellation", n + 1, r.actor,
                l.fromBal + (-txns[r.id].amount), NoId, "none", r.id)>>

cancelTransferDocs(r, l, n) ==
  <<Transaction(txns[r.id].accountSlug, -txns[r.id].amount,
                txns[r.id].currency, "cancellation", n + 1, r.actor,
                l.fromBal - txns[r.id].amount, n + 2, "none", r.id),
    Transaction(txns[l.linked].accountSlug, -txns[l.linked].amount,
                txns[l.linked].currency, "cancellation", n + 1,
                r.actor, l.toBal - txns[l.linked].amount,
                n + 1, "none", l.linked)>>

\* The documents the call appends.
NewTxns(p) ==
  CASE req[p].op = "recordTransaction" ->
         recordTransactionDocs(req[p], loc[p], Len(txns))
    [] req[p].op = "recordTransfer" ->
         recordTransferDocs(req[p], loc[p], Len(txns))
    [] req[p].op = "cancelTransaction" ->
         cancelTransactionDocs(req[p], loc[p], Len(txns))
    [] req[p].op = "cancelTransfer" ->
         cancelTransferDocs(req[p], loc[p], Len(txns))

\* MarkCancelled writing the markers with set in place of update: the
\* fields of the original that it does not name are lost.
MarkCancelled_Set(p) ==
  LET r == req[p]
      l == loc[p]
      n == Len(txns)
  IN [i \in TxnIds |->
       IF r.op \in {"cancelTransaction", "cancelTransfer"} /\ i = r.id
       THEN [txns[i] EXCEPT !.cancelledAt = n + 1, !.cancelledByTxnId = n + 1,
                            !.hasBalanceAfter = FALSE, !.balanceAfter = 0,
                            !.linkedTransactionId = NoId]
       ELSE IF r.op = "cancelTransfer" /\ i = l.linked
       THEN [txns[i] EXCEPT !.cancelledAt = n + 1, !.cancelledByTxnId = n + 2,
                            !.hasBalanceAfter = FALSE, !.balanceAfter = 0,
                            !.linkedTransactionId = NoId]
       ELSE txns[i]]

\* MarkCancelled setting cancelledAt without the pointer to the reversal.
MarkCancelled_NoPointer(p) ==
  LET r == req[p]
      l == loc[p]
      n == Len(txns)
  IN [i \in TxnIds |->
       IF r.op \in {"cancelTransaction", "cancelTransfer"} /\ i = r.id
       THEN [txns[i] EXCEPT !.cancelledAt = n + 1]
       ELSE IF r.op = "cancelTransfer" /\ i = l.linked
       THEN [txns[i] EXCEPT !.cancelledAt = n + 1]
       ELSE txns[i]]

\* The originals with their cancellation markers set.
MarkCancelled(p) ==
  LET r == req[p]
      l == loc[p]
      n == Len(txns)
  IN [i \in TxnIds |->
       IF r.op \in {"cancelTransaction", "cancelTransfer"} /\ i = r.id
       THEN [txns[i] EXCEPT !.cancelledAt = n + 1, !.cancelledByTxnId = n + 1]
       ELSE IF r.op = "cancelTransfer" /\ i = l.linked
       THEN [txns[i] EXCEPT !.cancelledAt = n + 1, !.cancelledByTxnId = n + 2]
       ELSE txns[i]]

\* The account updates, applied in the order the update function issues
\* them: a second update of the same document overwrites the first.
NewBalance(p) ==
  LET new == NewTxns(p)
      first == [balance EXCEPT ![new[1].accountSlug] = new[1].balanceAfter]
  IN IF Len(new) = 1 THEN first
     ELSE [first EXCEPT ![new[2].accountSlug] = new[2].balanceAfter]

NewVer(p) ==
  LET r == req[p]
  IN [s \in Slugs |->
       IF s = FromSlug(r) \/ s = ToSlug(r) THEN ver[s] + 1 ELSE ver[s]]

CommitTransaction(p) ==
  /\ pc[p] = "commit"
  /\ ReadsUnchanged(p)
  /\ txns' = MarkCancelled(p) \o NewTxns(p)
  /\ balance' = NewBalance(p)
  /\ ver' = NewVer(p)
  /\ pc' = [pc EXCEPT ![p] = req[p].next]
  /\ req' = [req EXCEPT ![p] = IF req[p].next = "idle" THEN NoReq ELSE @]
  /\ loc' = [loc EXCEPT ![p] = NoLoc]
  /\ outcome' = [op |-> req[p].op, status |-> "ok", target |-> req[p].id,
                 retried |-> loc[p].attempts > 1, slugs |-> <<>>,
                 cleaned |-> "none", buttons |-> <<>>]
  /\ UNCHANGED sessions

\* Contention: Firestore runs the update function again, or gives up.
RetryTransaction(p) ==
  /\ pc[p] = "commit"
  /\ ~ReadsUnchanged(p)
  /\ IF loc[p].attempts < MaxAttempts
     THEN RunUpdateFunction(p, req[p], loc[p].attempts + 1)
     ELSE /\ pc' = [pc EXCEPT ![p] = "idle"]
          /\ req' = [req EXCEPT ![p] = NoReq]
          /\ loc' = [loc EXCEPT ![p] = NoLoc]
          /\ outcome' = [op |-> req[p].op, status |-> "Aborted",
                         target |-> req[p].id, retried |-> TRUE,
                         slugs |-> <<>>, cleaned |-> "none", buttons |-> <<>>]
  /\ UNCHANGED <<balance, ver, txns, sessions>>

\* ------------------------------------------------------ the cancel flow
\* What a handler answers with (sendMessage, answerCbQuery): the message.
Answer(handler, status, txnId) ==
  [op |-> handler, status |-> status, target |-> txnId, retried |-> FALSE,
   slugs |-> <<>>, cleaned |-> "none", buttons |-> <<>>]

\* handleCancelSelectCallback on a transaction document: every rejection
\* answers the callback query and changes nothing; an accepted selection
\* edits the message into the prompt that carries the cancel:confirm button.
cancelSelectAnswer(telegramUserId, transaction) ==
  IF transaction.createdById # telegramUserId THEN "notYourTransaction"
  ELSE IF transaction.source = "cancellation" THEN "cannotCancelCancellation"
  ELSE IF transaction.cancelledAt # NoTime THEN "alreadyCancelled"
  ELSE "confirmPrompt"

\* A cancel:confirm button for txnId can be in the chat: some actor's
\* selection of the document, as it was when created, was accepted (the
\* prompt stays in the chat whatever happens to the transaction later).
ConfirmButton(txnId) ==
  \E u \in Actors :
    cancelSelectAnswer(u, [txns[txnId] EXCEPT !.cancelledAt = NoTime,
                                             !.cancelledByTxnId = NoId])
      = "confirmPrompt"

\* A cancel:select button pressed: the answer to the callback query, or the
\* prompt with the cancel:confirm button. Nothing is written.
handleCancelSelectCallback(telegramUserId, txnId) ==
  /\ outcome' = Answer("cancelSelect",
                       IF txnId \notin TxnIds THEN "error"
                       ELSE cancelSelectAnswer(telegramUserId, txns[txnId]),
                       NoId)
  /\ UNCHANGED <<balance, ver, txns, pc, req, loc, sessions>>

\* handleCancelConfirmCallback without its check of the author.
handleCancelConfirmCallback_NoAuthorCheck(p, telegramUserId, txnId) ==
  /\ Free(p)
  /\ ConfirmButton(txnId)
  /\ IF txns[txnId].cancelledAt # NoTime
     THEN /\ outcome' = Answer("cancelConfirm", "alreadyCancelled", NoId)
          /\ UNCHANGED <<pc, req, loc>>
     ELSE /\ CanStart
          /\ req' = [req EXCEPT ![p] =
               [NoReq EXCEPT !.op = IF txns[txnId].source = "transfer"
                                       /\ txns[txnId].linkedTransactionId # NoId
                                    THEN "cancelTransfer"
                                    ELSE "cancelTransaction",
                             !.id = txnId, !.actor = telegramUserId]]
          /\ pc' = [pc EXCEPT ![p] = "run"]
          /\ UNCHANGED <<loc, outcome>>
  /\ UNCHANGED <<balance, ver, txns, sessions>>

\* The handler up to its call of the engine: the engine call then runs as
\* RunTransaction and CommitTransaction of the same process.
handleCancelConfirmCallback(p, telegramUserId, txnId) ==
  /\ Free(p)
  /\ ConfirmButton(txnId)
  /\ IF txns[txnId].createdById # telegramUserId
     THEN /\ outcome' = Answer("cancelConfirm", "notYourTransaction", NoId)
          /\ UNCHANGED <<pc, req, loc>>
     ELSE IF txns[txnId].cancelledAt # NoTime
     THEN /\ outcome' = Answer("cancelConfirm", "alreadyCancelled", NoId)
          /\ UNCHANGED <<pc, req, loc>>
     ELSE /\ IF txns[txnId].source = "transfer"
                /\ txns[txnId].linkedTransactionId # NoId
             THEN /\ CanStart
                  /\ req' = [req EXCEPT ![p] =
                       [NoReq EXCEPT !.op = "cancelTransfer", !.id = txnId,
                                     !.actor = telegramUserId]]
             ELSE /\ CanStart
                  /\ req' = [req EXCEPT ![p] =
                       [NoReq EXCEPT !.op = "cancelTransaction", !.id = txnId,
                                     !.actor = telegramUserId]]
          /\ pc' = [pc EXCEPT ![p] = "run"]
          /\ UNCHANGED <<loc, outcome>>
  /\ UNCHANGED <<balance, ver, txns, sessions>>

\* db.runTransaction called by a handler: the first run of the update function.
RunTransaction(p) ==
  /\ pc[p] = "run"
  /\ RunUpdateFunction(p, req[p], 1)
  /\ UNCHANGED <<balance, ver, txns, sessions>>

Next ==
  \/ \E p \in Procs, d \in RecordCalls :
        createTransactionAndUpdateBalance(p, d)
  \/ \E p \in Procs, d \in TransferCalls :
        createTransferAndUpdateBalances(p, d)
  \/ \E p \in Procs, i \in 1..(Len(txns) + 1), u \in ApiCallers :
        createCancellationAndUpdateBalance(p, i, u)
  \/ \E p \in Procs, i \in 1..(Len(txns) + 1), u \in ApiCallers :
        createTransferCancellation(p, i, u)
  \/ \E p \in Procs, u \in Actors, i \in TxnIds :
        handleCancelConfirmCallback(p, u, i)
  \/ \E p \in Procs : RunTransaction(p)
  \/ \E p \in Procs : CommitTransaction(p)
  \/ \E p \in Procs : RetryTransaction(p)

Spec == Init /\ [][Next]_vars

\* The ledger written through the engine and reversed through the cancel
\* flow only: its buttons may be pressed by every actor of the chat. The
\* events are handled one after the other, so no engine call is run again.
CancelProcs == {1}

NextCancel ==
  \/ \E p \in CancelProcs, d \in RecordCalls :
        createTransactionAndUpdateBalance(p, d)
  \/ \E p \in CancelProcs, d \in TransferCalls :
        createTransferAndUpdateBalances(p, d)
  \/ \E u \in Actors, i \in 1..(Len(txns) + 1) :
        handleCancelSelectCallback(u, i)
  \/ \E p \in CancelProcs, u \in Actors, i \in TxnIds :
        handleCancelConfirmCallback(p, u, i)
  \/ \E p \in CancelProcs : RunTransaction(p)
  \/ \E p \in CancelProcs : CommitTransaction(p)

SpecCancel == Init /\ [][NextCancel]_vars

\* ------------------------------------------------ the add and sync flows
\* What a text message holds for parseFloat and for split("."): not a
\* number, or a sign, the digits before the separator (as their value) and
\* the digits after it; decimalPart is split(".")[1] of the normalized
\* text, which for a numeral is those digits.
Text(nan, sign, whole, decimals) ==
  [nan |-> nan, sign |-> sign, whole |-> whole, decimals |-> decimals,
   decimalPart |-> decimals]

Texts ==
  { Text(TRUE, 1, 0, <<>>),           \* "abc"
    Text(FALSE, 1, 0, <<>>),          \* "0"
    Text(FALSE, 1, 0, <<0, 3>>),      \* "0.03"
    Text(FALSE, -1, 0, <<0, 2>>),     \* "-0,02"
    Text(FALSE, 1, 0, <<0, 0, 5>>),   \* "0.005"
    Text(FALSE, 1, 1000001, <<>>) }   \* "1000001"

MAX_AMOUNT == 1000000

\* The slugs the account buttons pressed carry (a button may outlive its
\* account).
Buttons == {"cash", GhostSlug}

\* Who presses the account buttons of /add and of /sync.
AddUsers == {"u1"}
SyncUsers == {"u2"}

\* The digits after the separator as thousandths (texts carry at most three).
Thousandths(decimals) ==
  (IF Len(decimals) >= 1 THEN decimals[1] * 100 ELSE 0)
  + (IF Len(decimals) >= 2 THEN decimals[2] * 10 ELSE 0)
  + (IF Len(decimals) >= 3 THEN decimals[3] ELSE 0)

\* parseFloat of the normalized text, in thousandths of a major unit.
parseFloat(text) == text.sign * (text.whole * 1000 + Thousandths(text.decimals))

\* Math.round(amount * 100), amount in thousandths of a major unit.
toMinorUnits(amount) == (amount + 5) \div 10

\* ------------------------------------------------- texts, as characters
\* A text message is a sequence of characters. The characters of a decimal
\* digit, and its value.
DigitChars == <<"0", "1", "2", "3", "4", "5", "6", "7", "8", "9">>
IsDigit(c) == \E d \in 1..10 : DigitChars[d] = c
DigitValue(c) == (CHOOSE d \in 1..10 : DigitChars[d] = c) - 1

Least(S) == CHOOSE x \in S : \A y \in S : x <= y

\* text.replace(",", "."): the first comma becomes a dot.
Normalize(raw) ==
  LET commas == {i \in 1..Len(raw) : raw[i] = ","} IN
  IF commas = {} THEN raw ELSE [raw EXCEPT ![Least(commas)] = "."]

\* normalizedText.split(".")[1]: what stands between the first dot and the
\* second (or the end); empty where split gives undefined or "".
SplitDecimalPart(normalized) ==
  LET dots == {i \in 1..Len(normalized) : normalized[i] = "."} IN
  IF dots = {} THEN <<>>
  ELSE LET first == Least(dots)
           rest == dots \ {first}
           stop == IF rest = {} THEN Len(normalized) + 1 ELSE Least(rest)
       IN SubSeq(normalized, first + 1, stop - 1)

\* How many digits stand in s from position i on.
RECURSIVE DigitRun(_, _)
DigitRun(s, i) ==
  IF i <= Len(s) /\ IsDigit(s[i]) THEN 1 + DigitRun(s, i + 1) ELSE 0

\* Numbers above every limit of the handlers are kept as this one.
Saturate(n) == IF n > 2 * MAX_AMOUNT THEN 2 * MAX_AMOUNT ELSE n

\* The value of the digits s[i..], after the digits read so far (acc).
RECURSIVE NumberOf(_, _, _)
NumberOf(s, i, acc) ==
  IF i > Len(s) THEN acc
  ELSE NumberOf(s, i + 1, Saturate(acc * 10 + DigitValue(s[i])))

\* The longest prefix of the normalized text that is a decimal literal, as
\* parseFloat reads it: an optional minus, digits, an optional dot and
\* digits, and an exponent when digits follow the e. digits are those of
\* the mantissa and point is how many of them stand before the decimal
\* point once the exponent is applied.
Numeral(normalized) ==
  LET n == normalized
      neg == Len(n) >= 1 /\ n[1] = "-"
      a == IF neg THEN 2 ELSE 1
      ni == DigitRun(n, a)
      dot == a + ni <= Len(n) /\ n[a + ni] = "."
      nf == IF dot THEN DigitRun(n, a + ni + 1) ELSE 0
      e == a + ni + (IF dot THEN 1 + nf ELSE 0)
      hasE == e <= Len(n) /\ n[e] \in {"e", "E"}
      eneg == hasE /\ e + 1 <= Len(n) /\ n[e + 1] = "-"
      es == e + 1 + (IF eneg THEN 1 ELSE 0)
      ne == IF hasE THEN DigitRun(n, es) ELSE 0
      exp == (IF eneg THEN -1 ELSE 1)
               * NumberOf(SubSeq(n, es, es + ne - 1), 1, 0)
  IN [nan |-> ni + nf = 0,
      sign |-> IF neg THEN -1 ELSE 1,
      digits |-> SubSeq(n, a, a + ni - 1)
                   \o SubSeq(n, a + ni + 1, a + ni + nf),
      point |-> ni + exp,
      fraction |-> nf,
      exponent |-> ne > 0,
      length |-> IF ne > 0 THEN es + ne - 1 ELSE e - 1]

\* The number of a numeral as the handlers use it. The value keeps three
\* decimals; what follows the third is carried into it where it decides
\* the zero test, the comparison with MAX_AMOUNT or Math.round(amount * 100).
NumberRead(num, decimalPart) ==
  LET D == num.digits
      P == num.point
      Dig(j) == IF j \in 1..Len(D) THEN DigitValue(D[j]) ELSE 0
      before == NumberOf(SubSeq(D, 1, IF P < Len(D) THEN P ELSE Len(D)), 1, 0)
      whole == IF P <= Len(D) \/ before = 0 THEN before
               ELSE IF P - Len(D) > 7 THEN 2 * MAX_AMOUNT
               ELSE IF before > (2 * MAX_AMOUNT) \div (10 ^ (P - Len(D)))
               THEN 2 * MAX_AMOUNT
               ELSE before * 10 ^ (P - Len(D))
      more == \E j \in 1..Len(D) : j > P + 3 /\ Dig(j) # 0
      third == IF more /\ Dig(P + 3) \in {0, 5}
               THEN Dig(P + 3) + 1 ELSE Dig(P + 3)
  IN [nan |-> num.nan, sign |-> num.sign,
      whole |-> IF num.nan THEN 0 ELSE whole,
      decimals |-> IF num.nan THEN <<>>
                   ELSE <<Dig(P + 1), Dig(P + 2), third>>,
      decimalPart |-> decimalPart]

\* What the handlers get from a text: parseFloat of the normalized text
\* and its decimalPart.
ReadText(raw) ==
  CHOOSE text \in {NumberRead(num, SplitDecimalPart(Normalize(raw))) :
                     num \in {Numeral(Normalize(raw))}} : TRUE

\* The validation of handleAmountInput: "ok" or the message it answers with.
addAmountCheck(text) ==
  IF text.nan \/ parseFloat(text) = 0 THEN "invalidNumber"
  ELSE IF Len(text.decimalPart) > 2 THEN "maxDecimals"
  ELSE IF Abs(parseFloat(text)) > MAX_AMOUNT * 1000 THEN "maxAmount"
  ELSE "ok"

\* The validation of handleSyncAmountInput.
syncAmountCheck(text) ==
  IF text.nan THEN "invalidNumber"
  ELSE IF parseFloat(text) < 0 THEN "negativeNotAllowed"
  ELSE IF Len(text.decimalPart) > 2 THEN "maxDecimals"
  ELSE IF parseFloat(text) > MAX_AMOUNT * 1000 THEN "maxBalance"
  ELSE "ok"

\* cleanupSession: the user's session, if any, is deleted, after the
\* attempts to delete its messages.
cleanupSession(telegramUserId) ==
  sessions' = [sessions EXCEPT ![getSessionKey(ChatId, telegramUserId)] =
                 NoSession]

\* What a flow start answers with: the prompt; the messages of the session
\* cleaned up before it are gone from the chat.
StartAnswer(telegramUserId, prompt) ==
  [Answer("sendMessage", prompt, NoId) EXCEPT
     !.cleaned = sessions[getSessionKey(ChatId, telegramUserId)].step]

\* handleAddCommand as it was before it called cleanupSession.
handleAddCommand_NoCleanup(telegramUserId) ==
  /\ outcome' = Answer("sendMessage", "add.selectAccount", NoId)
  /\ UNCHANGED <<balance, ver, txns, pc, req, loc, sessions>>

handleAddCommand(telegramUserId) ==
  /\ cleanupSession(telegramUserId)
  /\ outcome' = StartAnswer(telegramUserId, "add.selectAccount")
  /\ UNCHANGED <<balance, ver, txns, pc, req, loc>>

handleSyncCommand(telegramUserId) ==
  /\ cleanupSession(telegramUserId)
  /\ outcome' = StartAnswer(telegramUserId, "sync.selectAccount")
  /\ UNCHANGED <<balance, ver, txns, pc, req, loc>>

\* The account buttons: the session of the flow is created on its first step.
AccountCallback(step, telegramUserId, slug) ==
  /\ IF slug \notin Slugs
     THEN /\ outcome' = Answer("answerCbQuery", "accountNotFound", NoId)
          /\ UNCHANGED sessions
     ELSE /\ sessions' = [sessions EXCEPT
            ![getSessionKey(ChatId, telegramUserId)] =
               [NoSession EXCEPT !.step = step, !.accountSlug = slug,
                                 !.createdById = telegramUserId]]
          /\ UNCHANGED outcome
  /\ UNCHANGED <<balance, ver, txns, pc, req, loc>>

handleAccountCallback(telegramUserId, slug) ==
  AccountCallback("amount", telegramUserId, slug)

handleSyncAccountCallback(telegramUserId, slug) ==
  AccountCallback("sync_amount", telegramUserId, slug)

\* The amount step of /add: a valid amount moves the session to the
\* description step, anything else leaves it where it is.
handleAmountInput(sessionKey, accountSlug, createdById, text) ==
  /\ IF addAmountCheck(text) # "ok"
     THEN /\ outcome' = Answer("sendMessage", addAmountCheck(text), NoId)
          /\ UNCHANGED sessions
     ELSE /\ sessions' = [sessions EXCEPT ![sessionKey] =
               [NoSession EXCEPT !.step = "description",
                                 !.accountSlug = accountSlug,
                                 !.amount = toMinorUnits(parseFloat(text)),
                                 !.createdById = createdById]]
          /\ UNCHANGED outcome
  /\ UNCHANGED <<pc, req>>

\* The writes a terminal step has ahead of it, as the call of process p;
\* newBalanceMinor is the balance the sync step goes on to report.
StartWrites(p, sessionKey, accountSlug, amount, source, createdById, newBalanceMinor) ==
  /\ NumCommits + NumPending < MaxFlowWrites
  /\ pc' = [pc EXCEPT ![p] = "createTransaction"]
  /\ req' = [req EXCEPT ![p] =
               [NoReq EXCEPT !.op = source, !.slug = accountSlug,
                             !.amount = amount, !.source = source,
                             !.actor = createdById,
                             !.sessionKey = sessionKey,
                             !.newBalanceMinor = newBalanceMinor]]
  /\ UNCHANGED <<sessions, outcome>>

\* The description step of /add without its lookup of the account.
handleDescriptionInput_NoLookup(p, sessionKey, accountSlug, amount, createdById) ==
  StartWrites(p, sessionKey, accountSlug, amount, "manual", createdById, 0)

\* The description step of /add up to its first write; a session whose
\* account is not found any more is deleted.
handleDescriptionInput(p, sessionKey, accountSlug, amount, createdById) ==
  IF accountSlug \notin Slugs
  THEN /\ outcome' = Answer("sendMessage", "accountNotFound", NoId)
       /\ sessions' = [sessions EXCEPT ![sessionKey] = NoSession]
       /\ UNCHANGED <<pc, req>>
  ELSE StartWrites(p, sessionKey, accountSlug, amount, "manual", createdById,
                   0)

\* handleSyncAmountInput without its test of delta === 0.
handleSyncAmountInput_NoZeroTest(p, sessionKey, accountSlug, createdById, text) ==
  IF syncAmountCheck(text) # "ok"
  THEN /\ outcome' = Answer("sendMessage", syncAmountCheck(text), NoId)
       /\ UNCHANGED <<sessions, pc, req>>
  ELSE IF accountSlug \notin Slugs
  THEN /\ outcome' = Answer("sendMessage", "cancelled", NoId)
       /\ sessions' = [sessions EXCEPT ![sessionKey] = NoSession]
       /\ UNCHANGED <<pc, req>>
  ELSE StartWrites(p, sessionKey, accountSlug,
                   toMinorUnits(parseFloat(text)) - balance[accountSlug],
                   "sync", createdById, toMinorUnits(parseFloat(text)))

\* The amount step of /sync up to its first write: the adjustment is the
\* entered balance minus the balance read here.
handleSyncAmountInput(p, sessionKey, accountSlug, createdById, text) ==
  IF syncAmountCheck(text) # "ok"
  THEN /\ outcome' = Answer("sendMessage", syncAmountCheck(text), NoId)
       /\ UNCHANGED <<sessions, pc, req>>
  ELSE IF accountSlug \notin Slugs
  THEN /\ outcome' = Answer("sendMessage", "cancelled", NoId)
       /\ sessions' = [sessions EXCEPT ![sessionKey] = NoSession]
       /\ UNCHANGED <<pc, req>>
  ELSE IF toMinorUnits(parseFloat(text)) - balance[accountSlug] = 0
  THEN /\ sessions' = [sessions EXCEPT ![sessionKey] = NoSession]
       /\ outcome' = Answer("sendMessage", "noChange", NoId)
       /\ UNCHANGED <<pc, req>>
  ELSE StartWrites(p, sessionKey, accountSlug,
                   toMinorUnits(parseFloat(text)) - balance[accountSlug],
                   "sync", createdById, toMinorUnits(parseFloat(text)))

\* handleSessionMessage recording at the amount step already.
handleSessionMessage_RecordsAtAmount(p, telegramUserId, text) ==
  LET sessionKey == getSessionKey(ChatId, telegramUserId)
      session == sessions[sessionKey]
  IN
  /\ Free(p)
  /\ session # NoSession
  /\ CASE session.step \in {"amount", "description"} ->
            handleDescriptionInput(p, sessionKey, session.accountSlug,
                                   toMinorUnits(parseFloat(text)),
                                   telegramUserId)
       [] session.step = "sync_amount" ->
            handleSyncAmountInput(p, sessionKey, session.accountSlug,
                                  telegramUserId, text)
       [] OTHER -> UNCHANGED <<sessions, pc, req, outcome>>
  /\ UNCHANGED <<balance, ver, txns, loc>>

\* A text message of a user who has a session, dispatched on its step.
handleSessionMessage(p, telegramUserId, text) ==
  LET sessionKey == getSessionKey(ChatId, telegramUserId)
      session == sessions[sessionKey]
  IN
  /\ Free(p)
  /\ session # NoSession
  /\ CASE session.step = "amount" ->
            handleAmountInput(sessionKey, session.accountSlug,
                              telegramUserId, text)
       [] session.step = "description" ->
            handleDescriptionInput(p, sessionKey, session.accountSlug,
                                   session.amount, telegramUserId)
       [] session.step = "sync_amount" ->
            handleSyncAmountInput(p, sessionKey, session.accountSlug,
                                  telegramUserId, text)
       [] OTHER -> UNCHANGED <<sessions, pc, req, outcome>>
  /\ UNCHANGED <<balance, ver, txns, loc>>

\* transactionsRef.add: the document of the older createTransaction, which
\* stores no balanceAfter.
createTransaction(p) ==
  /\ pc[p] = "createTransaction"
  /\ txns' = Append(txns,
       [Transaction(req[p].slug, req[p].amount, AccountCurrency(req[p].slug),
                    req[p].source, Len(txns) + 1, req[p].actor, 0, NoId,
                    "none", NoId)
          EXCEPT !.hasBalanceAfter = FALSE])
  /\ pc' = [pc EXCEPT ![p] = "updateAccountBalance"]
  /\ UNCHANGED <<balance, ver, req, loc, outcome, sessions>>

\* docRef.update with FieldValue.increment(delta).
updateAccountBalance(p) ==
  /\ pc[p] = "updateAccountBalance"
  /\ balance' = [balance EXCEPT ![req[p].slug] = @ + req[p].amount]
  /\ ver' = [ver EXCEPT ![req[p].slug] = @ + 1]
  /\ pc' = [pc EXCEPT ![p] = "deleteSession"]
  /\ UNCHANGED <<txns, req, loc, outcome, sessions>>

\* The session is deleted and the handler answers with the confirmation.
deleteSession(p) ==
  /\ pc[p] = "deleteSession"
  /\ sessions' = [sessions EXCEPT ![req[p].sessionKey] = NoSession]
  /\ pc' = [pc EXCEPT ![p] = "idle"]
  /\ req' = [req EXCEPT ![p] = NoReq]
  /\ outcome' = Answer(req[p].op, "success", NoId)
  /\ UNCHANGED <<balance, ver, txns, loc>>

\* The store rejects the write the handler is waiting for: the rejection is
\* thrown through the step and caught by handleSessionMessage, which logs it.
WriteFails(p) ==
  /\ pc[p] \in {"createTransaction", "updateAccountBalance", "deleteSession"}
  /\ pc' = [pc EXCEPT ![p] = "idle"]
  /\ req' = [req EXCEPT ![p] = NoReq]
  /\ outcome' = Answer(req[p].op, "error", NoId)
  /\ UNCHANGED <<balance, ver, txns, loc, sessions>>

NextFlow ==
  \/ \E u \in Actors : handleAddCommand(u)
  \/ \E u \in Actors : handleSyncCommand(u)
  \/ \E u \in AddUsers, slug \in Buttons :
        handleAccountCallback(u, slug)
  \/ \E u \in SyncUsers, slug \in Buttons :
        handleSyncAccountCallback(u, slug)
  \/ \E p \in Procs, u \in Actors, text \in Texts :
        handleSessionMessage(p, u, text)
  \/ \E p \in Procs : createTransaction(p)
  \/ \E p \in Procs : updateAccountBalance(p)
  \/ \E p \in Procs : deleteSession(p)
  \/ \E p \in Procs : WriteFails(p)

SpecFlow == Init /\ [][NextFlow]_vars

\* ------------------------------------- the transfer flow, the flow starts
\* One actor moving through every flow. The terminal step of the transfer
\* flow is followed in SpecTransfer, not here, and the store rejects no
\* write in this specification (SpecFlow has the rejections).
FlowUsers == {"u1"}

\* The actor's text messages are handled one after the other.
FlowProcs == {1}

\* How many transactions the flows of this specification write.
MaxSessionWrites == 1

TransferButtons == Slugs \cup {GhostSlug}

\* What getExchangeRate answers, in thousandths: 0 for null (the provider
\* failed), else the rate.
NoRate == 0

\* What the provider does when it is asked: the request or the parsing of
\* the body throws, the response is not OK, the body holds no rate for the
\* target, or it holds one (in thousandths).
ProviderAnswers ==
  { [throws |-> TRUE, ok |-> FALSE, hasRate |-> FALSE, rate |-> 0],
    [throws |-> FALSE, ok |-> FALSE, hasRate |-> FALSE, rate |-> 0],
    [throws |-> FALSE, ok |-> TRUE, hasRate |-> FALSE, rate |-> 0],
    [throws |-> FALSE, ok |-> TRUE, hasRate |-> TRUE, rate |-> 100],
    [throws |-> FALSE, ok |-> TRUE, hasRate |-> TRUE, rate |-> 1333] }

\* What leaves a function that throws.
Raised == -1

\* getExchangeRate without its try and catch.
getExchangeRate_NoCatch(base, target, answer) ==
  IF base = target THEN 1000
  ELSE IF answer.throws THEN Raised
  ELSE IF ~answer.ok THEN NoRate
  ELSE IF ~answer.hasRate THEN NoRate
  ELSE answer.rate

getExchangeRate(base, target, answer) ==
  IF base = target THEN 1000
  ELSE IF answer.throws THEN NoRate
  ELSE IF ~answer.ok THEN NoRate
  ELSE IF ~answer.hasRate THEN NoRate
  ELSE answer.rate

\* The answers of getExchangeRate for two different currencies.
Rates == {getExchangeRate("EUR", "USD", answer) : answer \in ProviderAnswers}

\* Math.round(amountMinor / 100 * rate * 100), rate in thousandths (the
\* thousands of amountMinor are multiplied apart, to stay in 32 bits).
convertCurrency(amountMinor, rate) ==
  (amountMinor \div 1000) * rate
    + ((amountMinor % 1000) * rate + 500) \div 1000

\* The validation of handleTransferAmountInput and of
\* handleTransferReceivedInput accepting negative numbers.
transferAmountCheck_NegativeAccepted(text) ==
  IF text.nan \/ parseFloat(text) = 0 THEN "invalidNumber"
  ELSE IF Len(text.decimalPart) > 2 THEN "maxDecimals"
  ELSE IF parseFloat(text) > MAX_AMOUNT * 1000 THEN "maxAmount"
  ELSE "ok"

\* The validation of handleTransferAmountInput and of
\* handleTransferReceivedInput.
transferAmountCheck(text) ==
  IF text.nan \/ parseFloat(text) <= 0 THEN "invalidNumber"
  ELSE IF Len(text.decimalPart) > 2 THEN "maxDecimals"
  ELSE IF parseFloat(text) > MAX_AMOUNT * 1000 THEN "maxAmount"
  ELSE "ok"

handleTransferCommand(telegramUserId) ==
  /\ cleanupSession(telegramUserId)
  /\ outcome' = StartAnswer(telegramUserId, "transfer.selectFrom")
  /\ UNCHANGED <<balance, ver, txns, pc, req, loc>>

MAX_TRANSACTIONS_TO_SHOW == 10

\* orderBy("createdAt", "desc").limit(limit) over the documents S: the
\* ids, newest first (documents of one commit by id).
RECURSIVE NewestFirst(_, _)
NewestFirst(S, limit) ==
  IF S = {} \/ limit = 0 THEN <<>>
  ELSE LET first == CHOOSE i \in S : \A j \in S :
                      \/ txns[i].createdAt > txns[j].createdAt
                      \/ txns[i].createdAt = txns[j].createdAt /\ i >= j
       IN <<first>> \o NewestFirst(S \ {first}, limit - 1)

\* The most recent transactions created by the user.
getUserTransactions(userId, limit) ==
  NewestFirst({i \in TxnIds : txns[i].createdById = userId}, limit)

\* The first n elements of a sequence (slice(0, n)).
Slice(seq, n) == SubSeq(seq, 1, IF Len(seq) < n THEN Len(seq) ELSE n)

\* What can be cancelled among the transactions read.
Cancellable(i) == txns[i].source # "cancellation" /\ txns[i].cancelledAt = NoTime

\* The list of handleCancelCommand without its slice.
cancelList_NoSlice(telegramUserId) ==
  SelectSeq(getUserTransactions(telegramUserId, MAX_TRANSACTIONS_TO_SHOW * 2),
            Cancellable)

\* The transactions handleCancelCommand lists for the user: of the user's
\* MAX_TRANSACTIONS_TO_SHOW * 2 most recent ones, the first
\* MAX_TRANSACTIONS_TO_SHOW that can be cancelled.
cancelList(telegramUserId) ==
  Slice(SelectSeq(getUserTransactions(telegramUserId,
                                      MAX_TRANSACTIONS_TO_SHOW * 2),
                  Cancellable),
        MAX_TRANSACTIONS_TO_SHOW)

\* /cancel sends the list, one cancel:select button for each transaction,
\* or the message that there is nothing to cancel.
handleCancelCommand(telegramUserId) ==
  /\ \E transactions \in {cancelList(telegramUserId)} :
       outcome' = [Answer("sendMessage",
                          IF transactions = <<>>
                          THEN "noTransactions" ELSE "selectTransaction",
                          NoId)
                     EXCEPT !.buttons = transactions]
  /\ UNCHANGED <<balance, ver, txns, pc, req, loc, sessions>>

handleTransferFromCallback(telegramUserId, fromSlug) ==
  /\ IF fromSlug \notin Slugs
     THEN /\ outcome' = Answer("answerCbQuery", "accountNotFound", NoId)
          /\ UNCHANGED sessions
     ELSE IF Slugs \ {fromSlug} = {}
     THEN /\ outcome' = Answer("answerCbQuery", "noOtherAccounts", NoId)
          /\ UNCHANGED sessions
     ELSE /\ sessions' = [sessions EXCEPT
            ![getSessionKey(ChatId, telegramUserId)] =
               [NoSession EXCEPT !.step = "transfer_to",
                                 !.fromAccountSlug = fromSlug,
                                 !.createdById = telegramUserId]]
          /\ UNCHANGED outcome
  /\ UNCHANGED <<balance, ver, txns, pc, req, loc>>

\* handleTransferToCallback without the test that the destination differs
\* from the source.
handleTransferToCallback_SameAccountAllowed(telegramUserId, toSlug) ==
  LET sessionKey == getSessionKey(ChatId, telegramUserId)
      session == sessions[sessionKey]
  IN
  /\ IF session = NoSession \/ session.step # "transfer_to"
        \/ session.fromAccountSlug = ""
     THEN /\ outcome' = Answer("answerCbQuery", "error", NoId)
          /\ UNCHANGED sessions
     ELSE IF session.fromAccountSlug \notin Slugs \/ toSlug \notin Slugs
     THEN /\ outcome' = Answer("answerCbQuery", "accountNotFound", NoId)
          /\ UNCHANGED sessions
     ELSE /\ sessions' = [sessions EXCEPT ![sessionKey] =
               [NoSession EXCEPT !.step = "transfer_amount",
                                 !.fromAccountSlug = session.fromAccountSlug,
                                 !.toAccountSlug = toSlug,
                                 !.createdById = telegramUserId]]
          /\ UNCHANGED outcome
  /\ UNCHANGED <<balance, ver, txns, pc, req, loc>>

handleTransferToCallback(telegramUserId, toSlug) ==
  LET sessionKey == getSessionKey(ChatId, telegramUserId)
      session == sessions[sessionKey]
  IN
  /\ IF session = NoSession \/ session.step # "transfer_to"
        \/ session.fromAccountSlug = ""
     THEN /\ outcome' = Answer("answerCbQuery", "error", NoId)
          /\ UNCHANGED sessions
     ELSE IF session.fromAccountSlug = toSlug
     THEN /\ outcome' = Answer("answerCbQuery", "sameAccountError", NoId)
          /\ UNCHANGED sessions
     ELSE IF session.fromAccountSlug \notin Slugs \/ toSlug \notin Slugs
     THEN /\ outcome' = Answer("answerCbQuery", "accountNotFound", NoId)
          /\ UNCHANGED sessions
     ELSE /\ sessions' = [sessions EXCEPT ![sessionKey] =
               [NoSession EXCEPT !.step = "transfer_amount",
                                 !.fromAccountSlug = session.fromAccountSlug,
                                 !.toAccountSlug = toSlug,
                                 !.createdById = telegramUserId]]
          /\ UNCHANGED outcome
  /\ UNCHANGED <<balance, ver, txns, pc, req, loc>>

\* The amount step of /transfer asking the provider for every pair of
\* accounts.
handleTransferAmountInput_AlwaysConverts(sessionKey, session, text, rate) ==
  LET amountMinor == toMinorUnits(parseFloat(text))
      next == [NoSession EXCEPT !.fromAccountSlug = session.fromAccountSlug,
                                !.toAccountSlug = session.toAccountSlug,
                                !.amount = amountMinor,
                                !.createdById = session.createdById]
  IN
  IF transferAmountCheck(text) # "ok"
  THEN /\ outcome' = Answer("sendMessage", transferAmountCheck(text), NoId)
       /\ UNCHANGED sessions
  ELSE IF session.fromAccountSlug \notin Slugs
          \/ session.toAccountSlug \notin Slugs
  THEN /\ outcome' = Answer("sendMessage", "accountNotFound", NoId)
       /\ sessions' = [sessions EXCEPT ![sessionKey] = NoSession]
  ELSE IF rate = NoRate
  THEN /\ sessions' = [sessions EXCEPT ![sessionKey] =
            [next EXCEPT !.step = "transfer_received"]]
       /\ UNCHANGED outcome
  ELSE /\ sessions' = [sessions EXCEPT ![sessionKey] =
            [next EXCEPT !.step = "transfer_received",
                         !.hasReceivedAmount = TRUE,
                         !.receivedAmount =
                            convertCurrency(amountMinor, rate)]]
       /\ UNCHANGED outcome

\* The amount step of /transfer; rate is what the provider answers when
\* the handler asks it.
handleTransferAmountInput(sessionKey, session, text, rate) ==
  LET amountMinor == toMinorUnits(parseFloat(text))
      next == [NoSession EXCEPT !.fromAccountSlug = session.fromAccountSlug,
                                !.toAccountSlug = session.toAccountSlug,
                                !.amount = amountMinor,
                                !.createdById = session.createdById]
  IN
  IF transferAmountCheck(text) # "ok"
  THEN /\ outcome' = Answer("sendMessage", transferAmountCheck(text), NoId)
       /\ UNCHANGED sessions
  ELSE IF session.fromAccountSlug \notin Slugs
          \/ session.toAccountSlug \notin Slugs
  THEN /\ outcome' = Answer("sendMessage", "accountNotFound", NoId)
       /\ sessions' = [sessions EXCEPT ![sessionKey] = NoSession]
  ELSE IF AccountCurrency(session.fromAccountSlug)
            = AccountCurrency(session.toAccountSlug)
  THEN /\ sessions' = [sessions EXCEPT ![sessionKey] =
            [next EXCEPT !.step = "transfer_description",
                         !.hasReceivedAmount = TRUE,
                         !.receivedAmount = amountMinor]]
       /\ UNCHANGED outcome
  ELSE IF rate = NoRate
  THEN /\ sessions' = [sessions EXCEPT ![sessionKey] =
            [next EXCEPT !.step = "transfer_received"]]
       /\ UNCHANGED outcome
  ELSE /\ sessions' = [sessions EXCEPT ![sessionKey] =
            [next EXCEPT !.step = "transfer_received",
                         !.hasReceivedAmount = TRUE,
                         !.receivedAmount =
                            convertCurrency(amountMinor, rate)]]
       /\ UNCHANGED outcome

\* The buttons under the converted amount: accept it, or type another.
handleTransferRateCallback(telegramUserId, data) ==
  LET sessionKey == getSessionKey(ChatId, telegramUserId)
      session == sessions[sessionKey]
  IN
  /\ IF session = NoSession \/ session.step # "transfer_received"
        \/ session.fromAccountSlug = "" \/ session.toAccountSlug = ""
     THEN /\ outcome' = Answer("answerCbQuery", "error", NoId)
          /\ UNCHANGED sessions
     ELSE /\ sessions' = [sessions EXCEPT ![sessionKey] =
               IF data = "transfer:rate:accept"
               THEN [session EXCEPT !.step = "transfer_description"]
               ELSE [session EXCEPT !.step = "transfer_received",
                                    !.hasReceivedAmount = FALSE,
                                    !.receivedAmount = 0]]
          /\ UNCHANGED outcome
  /\ UNCHANGED <<balance, ver, txns, pc, req, loc>>

\* The received-amount step of /transfer.
handleTransferReceivedInput(sessionKey, session, text) ==
  IF transferAmountCheck(text) # "ok"
  THEN /\ outcome' = Answer("sendMessage", transferAmountCheck(text), NoId)
       /\ UNCHANGED sessions
  ELSE /\ sessions' = [sessions EXCEPT ![sessionKey] =
            [NoSession EXCEPT !.step = "transfer_description",
                              !.fromAccountSlug = session.fromAccountSlug,
                              !.toAccountSlug = session.toAccountSlug,
                              !.amount = session.amount,
                              !.hasReceivedAmount = TRUE,
                              !.receivedAmount =
                                 toMinorUnits(parseFloat(text)),
                              !.createdById = session.createdById]]
       /\ UNCHANGED outcome

\* The description step of /transfer up to its call of the engine, which
\* then runs as RunTransaction and CommitTransaction of process p, followed
\* by deleteSession. A session without receivedAmount hands the engine an
\* undefined toAmount: Math.abs of it is NaN, and the documents written
\* with it are not followed further (the process stays where it is).
handleTransferDescriptionInput(p, sessionKey, session) ==
  IF session.fromAccountSlug \notin Slugs
       \/ session.toAccountSlug \notin Slugs
  THEN /\ outcome' = Answer("sendMessage", "accountNotFound", NoId)
       /\ sessions' = [sessions EXCEPT ![sessionKey] = NoSession]
       /\ UNCHANGED <<pc, req>>
  ELSE IF ~session.hasReceivedAmount
  THEN /\ pc' = [pc EXCEPT ![p] = "toAmountUndefined"]
       /\ req' = [req EXCEPT ![p] =
            [NoReq EXCEPT !.op = "recordTransfer",
                          !.slug = session.fromAccountSlug,
                          !.toSlug = session.toAccountSlug,
                          !.amount = session.amount,
                          !.actor = session.createdById,
                          !.sessionKey = sessionKey]]
       /\ outcome' = Answer("recordTransfer", "toAmountUndefined", NoId)
       /\ UNCHANGED sessions
  ELSE /\ pc' = [pc EXCEPT ![p] = "run"]
       /\ req' = [req EXCEPT ![p] =
            [NoReq EXCEPT !.op = "recordTransfer",
                          !.slug = session.fromAccountSlug,
                          !.toSlug = session.toAccountSlug,
                          !.amount = session.amount,
                          !.toAmount = session.receivedAmount,
                          !.actor = session.createdById,
                          !.sessionKey = sessionKey,
                          !.next = "deleteSession"]]
       /\ UNCHANGED <<sessions, outcome>>

\* The dispatch of the transfer steps without the description step.
handleTransferMessage_NoDescription(p, telegramUserId, text, rate) ==
  LET sessionKey == getSessionKey(ChatId, telegramUserId)
      session == sessions[sessionKey]
  IN
  /\ Free(p)
  /\ session.step \in {"transfer_amount", "transfer_received"}
  /\ IF session.step = "transfer_amount"
     THEN handleTransferAmountInput(sessionKey, session, text, rate)
     ELSE handleTransferReceivedInput(sessionKey, session, text)
  /\ UNCHANGED <<balance, ver, txns, pc, req, loc>>

\* A text message of a user whose session is at a text step of /transfer:
\* the session is read and the handler of its step is called.
handleTransferMessage(p, telegramUserId, text, rate) ==
  LET sessionKey == getSessionKey(ChatId, telegramUserId)
      session == sessions[sessionKey]
  IN
  /\ Free(p)
  /\ session.step \in {"transfer_amount", "transfer_received",
                       "transfer_description"}
  /\ CASE session.step = "transfer_amount" ->
            /\ handleTransferAmountInput(sessionKey, session, text, rate)
            /\ UNCHANGED <<pc, req>>
       [] session.step = "transfer_received" ->
            /\ handleTransferReceivedInput(sessionKey, session, text)
            /\ UNCHANGED <<pc, req>>
       [] session.step = "transfer_description" ->
            handleTransferDescriptionInput(p, sessionKey, session)
  /\ UNCHANGED <<balance, ver, txns, loc>>

\* The events of one actor and the writes of the terminal steps of /add and
\* /sync, of which at most MaxSessionWrites begin.
NextSession ==
  \/ \E u \in FlowUsers : handleAddCommand(u)
  \/ \E u \in FlowUsers : handleSyncCommand(u)
  \/ \E u \in FlowUsers : handleTransferCommand(u)
  \/ \E u \in FlowUsers : handleCancelCommand(u)
  \/ \E u \in FlowUsers, slug \in Buttons : handleAccountCallback(u, slug)
  \/ \E u \in FlowUsers, slug \in Buttons : handleSyncAccountCallback(u, slug)
  \/ \E u \in FlowUsers, slug \in TransferButtons :
        handleTransferFromCallback(u, slug)
  \/ \E u \in FlowUsers, slug \in TransferButtons :
        handleTransferToCallback(u, slug)
  \/ \E u \in FlowUsers, data \in {"transfer:rate:accept",
                                   "transfer:rate:custom"} :
        handleTransferRateCallback(u, data)
  \/ \E p \in FlowProcs, u \in FlowUsers, text \in Texts :
        /\ handleSessionMessage(p, u, text)
        /\ pc' # pc => NumCommits < MaxSessionWrites
  \/ \E p \in FlowProcs, u \in FlowUsers, text \in Texts, rate \in Rates :
        /\ handleTransferMessage(p, u, text, rate)
        /\ pc' = pc
  \/ \E p \in Procs : createTransaction(p)
  \/ \E p \in Procs : updateAccountBalance(p)
  \/ \E p \in Procs : deleteSession(p)

SpecSession == Init /\ [][NextSession]_vars

\* The transfer flow of one actor to its end: the engine call of the
\* description step and the deletion of the session after it (one process
\* meets no contention, so its engine call is never run again).
NextTransfer ==
  \/ \E u \in FlowUsers : handleTransferCommand(u)
  \/ \E u \in FlowUsers, slug \in TransferButtons :
        handleTransferFromCallback(u, slug)
  \/ \E u \in FlowUsers, slug \in TransferButtons :
        handleTransferToCallback(u, slug)
  \/ \E u \in FlowUsers, data \in {"transfer:rate:accept",
                                   "transfer:rate:custom"} :
        handleTransferRateCallback(u, data)
  \/ \E p \in FlowProcs, u \in FlowUsers, text \in Texts, rate \in Rates :
        /\ handleTransferMessage(p, u, text, rate)
        /\ pc' # pc => NumCommits < MaxSessionWrites
  \/ \E p \in Procs : RunTransaction(p)
  \/ \E p \in Procs : CommitTransaction(p)
  \/ \E p \in Procs : deleteSession(p)

SpecTransfer == Init /\ [][NextTransfer]_vars

\* ------------------------------------------- flows followed to their end
\* The step of the user's session.
StepOf(telegramUserId) == sessions[getSessionKey(ChatId, telegramUserId)].step

\* A flow may start: the user has no session, no handler is at work and
\* fewer than MaxSessionWrites commits were made.
MayStart(telegramUserId) ==
  /\ StepOf(telegramUserId) = "none"
  /\ \A p \in Procs : pc[p] = "idle"
  /\ NumCommits < MaxSessionWrites

\* The text passes the validation of the step.
ValidText(step, text) ==
  CASE step = "amount" -> addAmountCheck(text) = "ok"
    [] step = "sync_amount" -> syncAmountCheck(text) = "ok"
    [] step \in {"transfer_amount", "transfer_received"} ->
         transferAmountCheck(text) = "ok"
    [] OTHER -> TRUE

\* bot.on("text"): the text message of a user who has a session.
TextEvent(p, telegramUserId, text) ==
  \/ handleSessionMessage(p, telegramUserId, text)
  \/ \E rate \in Rates : handleTransferMessage(p, telegramUserId, text, rate)

\* The first button of a flow, pressed by a user who has no session.
FlowStart(telegramUserId) ==
  /\ MayStart(telegramUserId)
  /\ \/ handleAccountCallback(telegramUserId, "cash")
     \/ handleSyncAccountCallback(telegramUserId, "cash")
     \/ \E slug \in Slugs : handleTransferFromCallback(telegramUserId, slug)

\* The input the step of the session waits for: the button of the other
\* account, or a text that passes the validation of the step.
ValidInput(telegramUserId) ==
  \/ /\ StepOf(telegramUserId) = "transfer_to"
     /\ \E slug \in Slugs : handleTransferToCallback(telegramUserId, slug)
     /\ StepOf(telegramUserId)' = "transfer_amount"
  \/ \E p \in FlowProcs, text \in Texts :
        /\ ValidText(StepOf(telegramUserId), text)
        /\ TextEvent(p, telegramUserId, text)

\* A text the step rejects.
InvalidInput(telegramUserId) ==
  \E p \in FlowProcs, text \in Texts :
    /\ ~ValidText(StepOf(telegramUserId), text)
    /\ TextEvent(p, telegramUserId, text)

\* The buttons under the converted amount, while the message shows them.
RateButton(telegramUserId) ==
  /\ StepOf(telegramUserId) = "transfer_received"
  /\ sessions[getSessionKey(ChatId, telegramUserId)].hasReceivedAmount
  /\ \E data \in {"transfer:rate:accept", "transfer:rate:custom"} :
       handleTransferRateCallback(telegramUserId, data)

\* What a handler that has begun its writes goes on to do.
HandlerStep ==
  \E p \in Procs :
    \/ createTransaction(p)
    \/ updateAccountBalance(p)
    \/ RunTransaction(p)
    \/ CommitTransaction(p)
    \/ deleteSession(p)

NextLive ==
  \/ \E u \in FlowUsers : FlowStart(u)
  \/ \E u \in FlowUsers : ValidInput(u)
  \/ \E u \in FlowUsers : InvalidInput(u)
  \/ \E u \in FlowUsers : RateButton(u)
  \/ HandlerStep

\* A handler runs to its end (each await returns), and the user who has a
\* session sooner or later gives the input its step waits for.
SpecLive ==
  /\ Init
  /\ [][NextLive]_vars
  /\ WF_vars(HandlerStep)
  /\ \A u \in FlowUsers : WF_vars(ValidInput(u))

\* ----------------------------------------------- the list of /cancel
\* Ledgers long enough for the limits of the list: two runs of up to
\* MaxRun transactions of one kind each, recorded on cash with amount 1 (the
\* user's own, another user's, or the user's own and cancelled since),
\* followed by the reversals of the cancelled ones.
MaxRun == 11
ListKinds == {"own", "other", "cancelled"}

RunLedger(k1, n1, k2, n2) ==
  LET n == n1 + n2
      kind(i) == IF i <= n1 THEN k1 ELSE k2
      cancelled == {i \in 1..n : kind(i) = "cancelled"}
      rank(i) == Cardinality({j \in cancelled : j <= i})
      original(r) == CHOOSE i \in cancelled : rank(i) = r
  IN [i \in 1..(n + Cardinality(cancelled)) |->
       IF i <= n
       THEN [Transaction("cash", 1, "EUR", "manual", i,
                         IF kind(i) = "other" THEN "u2" ELSE "u1",
                         i, NoId, "none", NoId)
               EXCEPT !.cancelledAt =
                        IF kind(i) = "cancelled" THEN n + rank(i) ELSE NoTime,
                      !.cancelledByTxnId =
                        IF kind(i) = "cancelled" THEN n + rank(i) ELSE NoId]
       ELSE Transaction("cash", -1, "EUR", "cancellation", i, "u1",
                        n - (i - n), NoId, "none", original(i - n))]

InitList ==
  /\ \E k1 \in ListKinds, k2 \in ListKinds, n1 \in 0..MaxRun, n2 \in 0..MaxRun :
       \E ledger \in {RunLedger(k1, n1, k2, n2)} :
         /\ txns = ledger
         /\ balance = [s \in Slugs |->
                         IF s = "cash" /\ ledger # <<>>
                         THEN ledger[Len(ledger)].balanceAfter ELSE 0]
  /\ ver = [s \in Slugs |-> 0]
  /\ pc = [p \in Procs |-> "idle"]
  /\ req = [p \in Procs |-> NoReq]
  /\ loc = [p \in Procs |-> NoLoc]
  /\ outcome = NoOutcome
  /\ sessions = [k \in SessionKeys |-> NoSession]

NextList == \E u \in Actors : handleCancelCommand(u)

SpecList == InitList /\ [][NextList]_vars

\* ------------------------------------ sessions whose account is gone
\* The steps at which a text handler looks the accounts of the session up.
LookupSteps ==
  {"description", "sync_amount", "transfer_amount", "transfer_description"}

\* The session a flow has stored when it waits at step for a text, with
\* the slugs of the buttons pressed.
StoredSession(step, telegramUserId, slug, toSlug) ==
  CASE step = "description" ->
         [NoSession EXCEPT !.step = step, !.accountSlug = slug, !.amount = 3,
                           !.createdById = telegramUserId]
    [] step = "sync_amount" ->
         [NoSession EXCEPT !.step = step, !.accountSlug = slug,
                           !.createdById = telegramUserId]
    [] step = "transfer_amount" ->
         [NoSession EXCEPT !.step = step, !.fromAccountSlug = slug,
                           !.toAccountSlug = toSlug,
                           !.createdById = telegramUserId]
    [] step = "transfer_description" ->
         [NoSession EXCEPT !.step = step, !.fromAccountSlug = slug,
                           !.toAccountSlug = toSlug, !.amount = 3,
                           !.hasReceivedAmount = TRUE, !.receivedAmount = 4,
                           !.createdById = telegramUserId]

\* A user waits at a step of a flow; an account of the session may have
\* been removed from the store since its button was pressed (GhostSlug).
InitStale ==
  /\ balance = [s \in Slugs |-> 0]
  /\ ver = [s \in Slugs |-> 0]
  /\ txns = <<>>
  /\ pc = [p \in Procs |-> "idle"]
  /\ req = [p \in Procs |-> NoReq]
  /\ loc = [p \in Procs |-> NoLoc]
  /\ outcome = NoOutcome
  /\ \E u \in FlowUsers, step \in LookupSteps,
        slug \in TransferButtons, toSlug \in TransferButtons :
       /\ slug # toSlug
       /\ sessions = [k \in SessionKeys |->
                        IF k = getSessionKey(ChatId, u)
                        THEN StoredSession(step, u, slug, toSlug)
                        ELSE NoSession]

\* The texts of the user and what the handlers started by them go on to do.
NextStale ==
  \/ \E p \in FlowProcs, u \in FlowUsers, text \in Texts :
        handleSessionMessage(p, u, text)
  \/ \E p \in FlowProcs, u \in FlowUsers, text \in Texts, rate \in Rates :
        handleTransferMessage(p, u, text, rate)
  \/ \E p \in Procs : createTransaction(p)
  \/ \E p \in Procs : updateAccountBalance(p)
  \/ \E p \in Procs : RunTransaction(p)
  \/ \E p \in Procs : CommitTransaction(p)
  \/ \E p \in Procs : deleteSession(p)

SpecStale == InitStale /\ [][NextStale]_vars

\* ------------------------------------------- one text at a numeric step
\* The characters the texts are made of, and how long a text is.
TextAlphabet == {"0", "1", "5", ",", ".", "-", "e"}
MaxTextLen == 4

\* The texts of the scenario, and the numbers about the ceiling.
ScenarioTexts ==
  { <<"1", "2", ",", "5", "0">>, <<"1", "2", ".", "5", "0">>,
    <<"1", "2", ".", "5", "0", "5">>,
    <<"1", "0", "0", "0", "0", "0", "0">>,
    <<"1", "0", "0", "0", "0", "0", "1">>,
    <<"1", "0", "0", "0", "0", "0", "0", ".", "0", "1">> }

RawTexts ==
  UNION {[1..n -> TextAlphabet] : n \in 1..MaxTextLen} \cup ScenarioTexts

\* The session the flow of the step has stored when it waits for the
\* number: the account buttons were pressed, and at transfer_received the
\* sent amount was typed.
SessionAt(step, telegramUserId) ==
  CASE step \in {"amount", "sync_amount"} ->
         [NoSession EXCEPT !.step = step, !.accountSlug = "cash",
                           !.createdById = telegramUserId]
    [] step = "transfer_amount" ->
         [NoSession EXCEPT !.step = step, !.fromAccountSlug = "cash",
                           !.toAccountSlug = "card",
                           !.createdById = telegramUserId]
    [] step = "transfer_received" ->
         [NoSession EXCEPT !.step = step, !.fromAccountSlug = "cash",
                           !.toAccountSlug = "card", !.amount = 100,
                           !.createdById = telegramUserId]

\* A user at a numeric step, and the text message the user sends.
InitParse ==
  /\ balance = [s \in Slugs |-> 0]
  /\ ver = [s \in Slugs |-> 0]
  /\ txns = <<>>
  /\ pc = [p \in Procs |-> "idle"]
  /\ loc = [p \in Procs |-> NoLoc]
  /\ outcome = NoOutcome
  /\ \E u \in FlowUsers, raw \in RawTexts,
        step \in {"amount", "sync_amount", "transfer_amount",
                  "transfer_received"} :
       /\ sessions = [k \in SessionKeys |->
                        IF k = getSessionKey(ChatId, u)
                        THEN SessionAt(step, u) ELSE NoSession]
       /\ req = [p \in Procs |->
                   IF p \in FlowProcs THEN [NoReq EXCEPT !.text = raw]
                   ELSE NoReq]

\* bot.on("text"): the message is handed to the handler of the session's
\* step (the user may send the same text again).
onText(p, telegramUserId) ==
  /\ req[p].text # <<>>
  /\ \E text \in {ReadText(req[p].text)} :
       \/ handleSessionMessage(p, telegramUserId, text)
       \/ \E rate \in Rates :
            handleTransferMessage(p, telegramUserId, text, rate)

NextParse ==
  \/ \E p \in FlowProcs, u \in FlowUsers : onText(p, u)
  \/ \E p \in Procs : createTransaction(p)
  \/ \E p \in Procs : updateAccountBalance(p)
  \/ \E p \in Procs : deleteSession(p)

SpecParse == InitParse /\ [][NextParse]_vars

\* ------------------------------------------------------ verifyIntegrity
AccountTxnIds(slug) == {i \in TxnIds : txns[i].accountSlug = slug}

\* The ids of S ordered by createdAt ascending (documents of one commit in
\* id order).
RECURSIVE OrderByCreatedAt(_)
OrderByCreatedAt(S) ==
  IF S = {} THEN <<>>
  ELSE LET first == CHOOSE i \in S : \A j \in S :
                      \/ txns[i].createdAt < txns[j].createdAt
                      \/ txns[i].createdAt = txns[j].createdAt /\ i <= j
       IN <<first>> \o OrderByCreatedAt(S \ {first})

\* The replay loop comparing balanceAfter before it adds the amount.
RECURSIVE FirstMismatch_CompareBeforeAdd(_, _, _)
FirstMismatch_CompareBeforeAdd(docs, k, calculatedBalance) ==
  IF k > Len(docs) THEN NoId
  ELSE LET txn == txns[docs[k]]
       IN IF ~txn.hasBalanceAfter \/ txn.balanceAfter # calculatedBalance
          THEN docs[k]
          ELSE FirstMismatch_CompareBeforeAdd(docs, k + 1,
                                              calculatedBalance + txn.amount)

\* The replay loop from position k with running total calculatedBalance:
\* 0 when every balanceAfter matches, else the id of the first mismatch.
RECURSIVE FirstMismatch(_, _, _)
FirstMismatch(docs, k, calculatedBalance) ==
  IF k > Len(docs) THEN NoId
  ELSE LET txn == txns[docs[k]]
           sum == calculatedBalance + txn.amount
       IN IF ~txn.hasBalanceAfter \/ txn.balanceAfter # sum THEN docs[k]
          ELSE FirstMismatch(docs, k + 1, sum)

SumAmounts(slug) ==
  SumOver(AccountTxnIds(slug), [i \in TxnIds |-> txns[i].amount])

verifyAccountIntegrity(slug) ==
  /\ slug \in Slugs
  /\ FirstMismatch(OrderByCreatedAt(AccountTxnIds(slug)), 1, 0) = NoId
  /\ SumAmounts(slug) = balance[slug]

\* The transaction the failing replay logs ("Integrity mismatch:
\* balanceAfter does not match"), NoId when it logs none.
IntegrityMismatch(slug) ==
  IF slug \notin Slugs THEN NoId
  ELSE FirstMismatch(OrderByCreatedAt(AccountTxnIds(slug)), 1, 0)

\* verifyAccountIntegrity applied to stored data of any content: ledgers of
\* up to MaxLedger documents on cash, in creation order or in the reverse
\* of it, each with an amount and a balanceAfter (or, as the documents of
\* createTransaction, none), and any small stored balance.
MaxLedger == 3

LedgerAmounts == {-1, 2}
LedgerBalances == {-1, 1, 2}

LedgerDocs(n) ==
  [1..n -> [amount : LedgerAmounts, hasBalanceAfter : BOOLEAN,
            balanceAfter : LedgerBalances]]

StoredLedger(n, oldestFirst, docs) ==
  [i \in 1..n |->
     [Transaction("cash", docs[i].amount, AccountCurrency("cash"), "manual",
                  IF oldestFirst THEN i ELSE n + 1 - i, "u1",
                  docs[i].balanceAfter, NoId, "none", NoId)
        EXCEPT !.hasBalanceAfter = docs[i].hasBalanceAfter]]

InitVerify ==
  /\ \E n \in 0..MaxLedger, oldestFirst \in BOOLEAN :
       \E docs \in LedgerDocs(n) :
         /\ \A i \in 1..n : ~docs[i].hasBalanceAfter => docs[i].balanceAfter = 1
         /\ txns = StoredLedger(n, oldestFirst, docs)
  /\ \E b \in LedgerBalances :
       balance = [s \in Slugs |-> IF s = "cash" THEN b ELSE 0]
  /\ ver = [s \in Slugs |-> 0]
  /\ pc = [p \in Procs |-> "idle"]
  /\ req = [p \in Procs |-> NoReq]
  /\ loc = [p \in Procs |-> NoLoc]
  /\ outcome = NoOutcome
  /\ sessions = [k \in SessionKeys |-> NoSession]

verifyAccountIntegrityCall(slug) ==
  /\ outcome' = [op |-> "verifyIntegrity",
                 status |-> IF verifyAccountIntegrity(slug)
                            THEN "pass" ELSE "fail",
                 target |-> IntegrityMismatch(slug),
                 retried |-> FALSE, slugs |-> <<slug>>, cleaned |-> "none", buttons |-> <<>>]
  /\ UNCHANGED <<balance, ver, txns, pc, req, loc, sessions>>

NextVerify ==
  \E slug \in Slugs \cup {GhostSlug} : verifyAccountIntegrityCall(slug)

SpecVerify == InitVerify /\ [][NextVerify]_vars

\* --------------------------------------------- accounts of the admin CLI
\* The initial balances typed into the add-account CLI, in minor units.
InitialBalances == {0, 5, 12}

\* createAccount: the account document is stored with the balance it is
\* given and no transaction is written; it throws when the slug exists.
createAccount(accounts, account) ==
  IF account.slug \in DOMAIN accounts THEN accounts
  ELSE [s \in DOMAIN accounts \cup {account.slug} |->
          IF s = account.slug THEN account.balance ELSE accounts[s]]

\* The calls of the engine on the account that the CLI created.
AccountCalls ==
  { [slug |-> "bank", amount |-> 3, source |-> "manual", actor |-> "u1"],
    [slug |-> "bank", amount |-> -2, source |-> "sync", actor |-> "u2"] }

\* The CLI has created bank, after cash and card, with an initial balance.
InitAccount ==
  /\ \E b \in InitialBalances :
       balance = createAccount([s \in Slugs \ {"bank"} |-> 0],
                               [slug |-> "bank", balance |-> b])
  /\ ver = [s \in Slugs |-> 0]
  /\ txns = <<>>
  /\ pc = [p \in Procs |-> "idle"]
  /\ req = [p \in Procs |-> NoReq]
  /\ loc = [p \in Procs |-> NoLoc]
  /\ outcome = NoOutcome
  /\ sessions = [k \in SessionKeys |-> NoSession]

\* Transactions recorded on the created account, and the integrity check.
NextAccount ==
  \/ \E p \in Procs, d \in AccountCalls :
        createTransactionAndUpdateBalance(p, d)
  \/ \E p \in Procs : CommitTransaction(p)
  \/ \E p \in Procs : RetryTransaction(p)
  \/ \E slug \in Slugs : verifyAccountIntegrityCall(slug)

SpecAccount == InitAccount /\ [][NextAccount]_vars

\* ================================================================ claims
Reversals(i) == {j \in TxnIds : txns[j].cancelledTransactionId = i}

\* Process p commits its call in this step.
Commits(p) == pc[p] = "commit" /\ pc'[p] = "idle" /\ Len(txns') > Len(txns)

\* A call finishes in this step.
Finishes == outcome' # outcome

\* C1: after any sequence and interleaving of successful engine operations
\* on accounts that start at balance 0 with no transactions, every
\* account's stored balance equals the sum of the amounts of its
\* transactions.
C1_BalanceIsSumOfAmounts ==
  \A s \in Slugs : balance[s] = SumAmounts(s)

\* C2: on an account that only recordTransaction has written to, replaying
\* the transactions in creation order reproduces every balanceAfter and the
\* stored balance: verifyAccountIntegrity passes.
OnlyRecorded(s) ==
  \A i \in AccountTxnIds(s) : txns[i].source \in {"manual", "sync"}

C2_ReplayReproducesBalances ==
  \A s \in Slugs : OnlyRecorded(s) => verifyAccountIntegrity(s)

C2_Witness ==
  \E s \in Slugs : /\ OnlyRecorded(s)
                   /\ Cardinality(AccountTxnIds(s)) >= 3
                   /\ verifyAccountIntegrity(s)

\* C4: a committing recordTransaction adds its amount to the balance the
\* account has at the commit, not to the one its run has read, and stores
\* that sum as balanceAfter: of two concurrent calls neither update is
\* lost and the balanceAfter values are those of a serial order.
C4_NoLostUpdate ==
  [][\A p \in Procs :
       (Commits(p) /\ req[p].op = "recordTransaction") =>
         /\ balance'[req[p].slug] = balance[req[p].slug] + req[p].amount
         /\ txns'[Len(txns')].balanceAfter = balance'[req[p].slug]
         /\ txns'[Len(txns')].amount = req[p].amount]_vars

\* Two calls on one account overlapped: the later committer had to run again.
C4_Witness ==
  /\ outcome.op = "recordTransaction"
  /\ outcome.status = "ok"
  /\ outcome.retried
  /\ Len(txns) >= 2
  /\ txns[Len(txns)].accountSlug = txns[Len(txns) - 1].accountSlug
  /\ txns[Len(txns)].balanceAfter
       = txns[Len(txns)].amount + txns[Len(txns) - 1].balanceAfter

\* C5: a committing recordTransfer between two distinct accounts writes the
\* outgoing leg -|fromAmount| and the incoming leg +|toAmount|, links each
\* leg to the other, lowers the source balance by |fromAmount|, raises the
\* destination balance by |toAmount|, and each leg's balanceAfter is its
\* account's new balance.
C5_TransferLegs ==
  [][\A p \in Procs :
       (Commits(p) /\ req[p].op = "recordTransfer"
          /\ req[p].slug # req[p].toSlug) =>
         LET out == Len(txns) + 1
             inc == Len(txns) + 2
         IN /\ Len(txns') = inc
            /\ txns'[out].amount = -Abs(req[p].amount)
            /\ txns'[inc].amount = Abs(req[p].toAmount)
            /\ txns'[out].accountSlug = req[p].slug
            /\ txns'[inc].accountSlug = req[p].toSlug
            /\ txns'[out].linkedTransactionId = inc
            /\ txns'[inc].linkedTransactionId = out
            /\ balance'[req[p].slug] = balance[req[p].slug] - Abs(req[p].amount)
            /\ balance'[req[p].toSlug]
                 = balance[req[p].toSlug] + Abs(req[p].toAmount)
            /\ txns'[out].balanceAfter = balance'[req[p].slug]
            /\ txns'[inc].balanceAfter = balance'[req[p].toSlug]]_vars

\* A transfer called with a negative toAmount (-4) and one called with a
\* negative fromAmount (-2) have both committed.
C5_Witness ==
  /\ \E i \in TxnIds : /\ txns[i].transferType = "incoming"
                       /\ txns[i].accountSlug = "card"
                       /\ txns[i].amount = 4
  /\ \E i \in TxnIds : /\ txns[i].transferType = "outgoing"
                       /\ txns[i].accountSlug = "card"
                       /\ txns[i].amount = -2

\* C6: every transaction with source = transfer names, in
\* linkedTransactionId, an existing transfer transaction of the opposite
\* transferType that links back to it; no state holds an unpaired leg.
C6_LegsArePaired ==
  \A i \in TxnIds :
    txns[i].source = "transfer" =>
      LET j == txns[i].linkedTransactionId
      IN /\ j \in TxnIds
         /\ j # i
         /\ txns[j].source = "transfer"
         /\ txns[j].linkedTransactionId = i
         /\ {txns[i].transferType, txns[j].transferType}
              = {"outgoing", "incoming"}

\* A transfer is stored and a later recordTransfer has failed.
C6_Witness ==
  /\ \E i \in TxnIds : txns[i].source = "transfer"
  /\ outcome.op = "recordTransfer"
  /\ outcome.status = "AccountNotFound"

\* C7: a cancelTransaction on an original already cancelled writes nothing
\* (no second reversal, no balance change), and every run of its update
\* function ends with AlreadyCancelled (the call ends otherwise only when
\* Firestore gives up on contention).
C7_SecondCancelFails ==
  [][\A i \in TxnIds :
       (/\ txns[i].cancelledAt # NoTime
        /\ txns[i].source # "cancellation"
        /\ Finishes
        /\ outcome'.op = "cancelTransaction"
        /\ outcome'.target = i) =>
         /\ outcome'.status # "Aborted"
              => outcome'.status = "AlreadyCancelled"
         /\ txns' = txns
         /\ balance' = balance
         /\ Cardinality(Reversals(i)) = 1]_vars

C7_Witness ==
  /\ outcome.op = "cancelTransaction"
  /\ outcome.status = "AlreadyCancelled"
  /\ ~outcome.retried
  /\ outcome.target \in TxnIds
  /\ Cardinality(Reversals(outcome.target)) = 1
  /\ balance[txns[outcome.target].accountSlug]
       = txns[txns[outcome.target].cancelledByTxnId].balanceAfter

\* C8: of concurrent cancellations of one original at most one succeeds:
\* no original ever has two reversals, an original is marked cancelled
\* exactly when its reversal exists, a cancellation commits only while its
\* originals have no reversal, and a cancellation that fails changes no
\* balance and no transaction.
C8_Reversals ==
  \A i \in TxnIds :
    /\ Cardinality(Reversals(i)) <= 1
    /\ (Reversals(i) # {}) <=> (txns[i].cancelledAt # NoTime)
    /\ \A j \in Reversals(i) : txns[j].amount = -txns[i].amount

C8_OneReversalPerOriginal ==
  [][/\ txns' # txns => C8_Reversals'
     /\ \A p \in Procs :
          (Commits(p) /\ req[p].op \in {"cancelTransaction", "cancelTransfer"})
            => /\ Reversals(req[p].id) = {}
               /\ req[p].op = "cancelTransfer"
                    => Reversals(txns[req[p].id].linkedTransactionId) = {}
               /\ req[p].op = "cancelTransaction"
                    => balance'[txns[req[p].id].accountSlug]
                         = balance[txns[req[p].id].accountSlug]
                             - txns[req[p].id].amount
     /\ (/\ Finishes
         /\ outcome'.op \in {"cancelTransaction", "cancelTransfer",
                              "cancelConfirm"}
         /\ outcome'.status # "ok")
          => txns' = txns /\ balance' = balance]_vars

\* Two cancelTransfer calls, given the two legs of one transfer, overlapped:
\* the one given the incoming leg ran again and ended with AlreadyCancelled.
C8_Witness ==
  /\ outcome.op = "cancelTransfer"
  /\ outcome.status = "AlreadyCancelled"
  /\ outcome.retried
  /\ outcome.target \in TxnIds
  /\ txns[outcome.target].transferType = "incoming"
  /\ txns[outcome.target].cancelledByTxnId
       > txns[txns[outcome.target].linkedTransactionId].cancelledByTxnId

\* C9: no cancellation transaction ever carries cancelledAt or
\* cancelledByTxnId; cancelTransaction on one ends with
\* InvalidCancellationTarget and cancelTransfer on one fails, and neither
\* writes anything.
C9_CancellationsStay ==
  [][/\ \A i \in 1..Len(txns') :
          txns'[i].source = "cancellation" =>
            /\ txns'[i].cancelledAt = NoTime
            /\ txns'[i].cancelledByTxnId = NoId
     /\ \A i \in TxnIds :
          (/\ txns[i].source = "cancellation"
           /\ Finishes
           /\ outcome'.op \in {"cancelTransaction", "cancelTransfer"}
           /\ outcome'.target = i) =>
            /\ outcome'.op = "cancelTransaction"
                 => outcome'.status = "InvalidCancellationTarget"
            /\ outcome'.op = "cancelTransfer"
                 => outcome'.status = "NotATransfer"
            /\ txns' = txns
            /\ balance' = balance]_vars

C9_Witness ==
  /\ outcome.op = "cancelTransaction"
  /\ outcome.status = "InvalidCancellationTarget"
  /\ outcome.target \in TxnIds
  /\ txns[outcome.target].source = "cancellation"
  /\ txns[outcome.target].cancelledTransactionId # NoId

\* C10: the reversal of a transaction written by recordTransaction carries
\* the negated amount and a balanceAfter equal to the balance before it
\* plus that amount, so the pair contributes zero; with nothing committed
\* on the account in between, the balance is back at its value before the
\* recordTransaction.
Between(i, j) ==
  {k \in TxnIds : i < k /\ k < j /\ txns[k].accountSlug = txns[i].accountSlug}

Previous(j) ==
  {k \in TxnIds : /\ k < j
                  /\ txns[k].accountSlug = txns[j].accountSlug
                  /\ \A m \in TxnIds :
                       (m < j /\ txns[m].accountSlug = txns[j].accountSlug)
                         => m <= k}

C10_RoundTrip ==
  \A i \in TxnIds : \A j \in Reversals(i) :
    txns[i].source \in {"manual", "sync"} =>
      /\ txns[j].amount + txns[i].amount = 0
      /\ txns[j].accountSlug = txns[i].accountSlug
      /\ \A k \in Previous(j) :
           txns[j].balanceAfter = txns[k].balanceAfter + txns[j].amount
      /\ Between(i, j) = {} =>
           txns[j].balanceAfter = txns[i].balanceAfter - txns[i].amount
      /\ (\A k \in AccountTxnIds(txns[j].accountSlug) : k <= j) =>
           balance[txns[j].accountSlug] = txns[j].balanceAfter

\* A recorded transaction on a non-zero balance was cancelled with nothing
\* in between, and the balance is back where it was.
C10_Witness ==
  \E i \in TxnIds : \E j \in Reversals(i) :
    /\ txns[i].source \in {"manual", "sync"}
    /\ Between(i, j) = {}
    /\ txns[i].balanceAfter - txns[i].amount # 0
    /\ balance[txns[i].accountSlug] = txns[i].balanceAfter - txns[i].amount
    /\ \A k \in AccountTxnIds(txns[j].accountSlug) : k <= j

\* C11: after a successful cancelTransaction of orig the reversal rev has
\* amount = -orig.amount, source = cancellation and cancelledTransactionId
\* = orig, and orig has cancelledAt set and cancelledByTxnId = rev; in
\* every state the forward pointer cancelledByTxnId and the backward
\* pointer cancelledTransactionId agree, and at most one reversal points to
\* any original.
C11_PointersAgree ==
  /\ \A i \in TxnIds :
       /\ txns[i].cancelledByTxnId # NoId =>
            /\ txns[i].cancelledByTxnId \in TxnIds
            /\ txns[txns[i].cancelledByTxnId].cancelledTransactionId = i
       /\ txns[i].cancelledTransactionId # NoId =>
            /\ txns[i].cancelledTransactionId \in TxnIds
            /\ txns[txns[i].cancelledTransactionId].cancelledByTxnId = i
       /\ Cardinality(Reversals(i)) <= 1
  /\ (outcome.op = "cancelTransaction" /\ outcome.status = "ok") =>
       LET orig == outcome.target
           rev == txns[orig].cancelledByTxnId
       IN /\ orig \in TxnIds
          /\ txns[orig].cancelledAt # NoTime
          /\ rev \in TxnIds
          /\ txns[rev].amount = -txns[orig].amount
          /\ txns[rev].source = "cancellation"
          /\ txns[rev].cancelledTransactionId = orig

\* A cancelTransaction has just succeeded on an original of non-zero amount
\* while another original carries a reversal of its own.
C11_Witness ==
  /\ outcome.op = "cancelTransaction"
  /\ outcome.status = "ok"
  /\ txns[outcome.target].amount # 0
  /\ txns[txns[outcome.target].cancelledByTxnId].cancelledTransactionId
       = outcome.target
  /\ \E i \in TxnIds : i # outcome.target /\ txns[i].cancelledByTxnId # NoId

\* C12: a cancelTransaction or cancelTransfer that fails (AlreadyCancelled,
\* InvalidCancellationTarget, NotATransfer, unknown transaction or account)
\* fails before any write: a call that ends on a target that is unknown, a
\* cancellation, already cancelled or (for cancelTransfer) not an
\* uncancelled pair of transfer legs ends without success, and every call
\* that ends without success leaves every balance, every transaction and
\* every cancellation marker as it was.
CannotCancel(op, i) ==
  \/ i \notin TxnIds
  \/ /\ i \in TxnIds
     /\ \/ txns[i].source = "cancellation"
        \/ txns[i].cancelledAt # NoTime
        \/ /\ op = "cancelTransfer"
           /\ \/ txns[i].source # "transfer"
              \/ txns[i].linkedTransactionId \notin TxnIds
              \/ /\ txns[i].linkedTransactionId \in TxnIds
                 /\ txns[txns[i].linkedTransactionId].cancelledAt # NoTime

C12_FailsBeforeAnyWrite ==
  [][(Finishes /\ outcome'.op \in {"cancelTransaction", "cancelTransfer"}) =>
       /\ CannotCancel(outcome'.op, outcome'.target) => outcome'.status # "ok"
       /\ outcome'.status # "ok" =>
            /\ outcome'.status \in {"AlreadyCancelled", "NotATransfer",
                                     "InvalidCancellationTarget",
                                     "TransactionNotFound", "AccountNotFound",
                                     "Aborted"}
            /\ txns' = txns
            /\ balance' = balance
            /\ ver' = ver]_vars

\* A cancelTransfer of an unknown id has failed on a ledger that holds a
\* cancelled transaction and a non-zero balance.
C12_Witness ==
  /\ outcome.op = "cancelTransfer"
  /\ outcome.status = "TransactionNotFound"
  /\ outcome.target \notin TxnIds
  /\ \E i \in TxnIds : txns[i].cancelledAt # NoTime
  /\ \E s \in Slugs : balance[s] # 0

\* C13: a recordTransaction whose slug resolves to no account, and a
\* recordTransfer with either slug unresolved, fail with AccountNotFound and
\* leave balances and ledger unchanged (an existing source with a missing
\* destination is neither debited nor given an outgoing leg); a record call
\* commits only when every slug it was given resolves.
C13_UnresolvedSlugFails ==
  [][/\ \A p \in Procs :
          (Commits(p) /\ req[p].op \in {"recordTransaction", "recordTransfer"})
            => /\ req[p].slug \in Slugs
               /\ req[p].op = "recordTransfer" => req[p].toSlug \in Slugs
     /\ (/\ Finishes
         /\ outcome'.op \in {"recordTransaction", "recordTransfer"}
         /\ \E k \in DOMAIN outcome'.slugs : outcome'.slugs[k] \notin Slugs)
          => /\ outcome'.status = "AccountNotFound"
             /\ txns' = txns
             /\ balance' = balance
             /\ ver' = ver]_vars

\* A transfer from cash, which holds a non-zero balance, to a slug that
\* resolves to nothing has failed.
C13_Witness ==
  /\ outcome.op = "recordTransfer"
  /\ outcome.status = "AccountNotFound"
  /\ outcome.slugs = <<"cash", GhostSlug>>
  /\ balance["cash"] # 0
  /\ \A i \in TxnIds : txns[i].source # "transfer"

\* C14: a committing cancelTransfer, given the id of either leg of an
\* uncancelled transfer, writes two reversals that link to each other, each
\* negating its own original leg and naming it in cancelledTransactionId,
\* marks both originals cancelled with cancelledByTxnId naming their own
\* reversal, and moves every balance back by the amounts of the legs on
\* that account; none of this depends on which leg was given.
LegsOn(s, a, b) == {i \in {a, b} : txns[i].accountSlug = s}

C14_CancelTransferRestores ==
  [][\A p \in Procs :
       (Commits(p) /\ req[p].op = "cancelTransfer") =>
         LET a == req[p].id
             b == txns[a].linkedTransactionId
             ra == txns'[a].cancelledByTxnId
             rb == txns'[b].cancelledByTxnId
         IN /\ Len(txns') = Len(txns) + 2
            /\ {ra, rb} = {Len(txns) + 1, Len(txns) + 2}
            /\ txns'[ra].linkedTransactionId = rb
            /\ txns'[rb].linkedTransactionId = ra
            /\ txns'[ra].amount = -txns[a].amount
            /\ txns'[rb].amount = -txns[b].amount
            /\ txns'[ra].cancelledTransactionId = a
            /\ txns'[rb].cancelledTransactionId = b
            /\ txns'[ra].source = "cancellation"
            /\ txns'[rb].source = "cancellation"
            /\ txns'[a].cancelledAt # NoTime
            /\ txns'[b].cancelledAt # NoTime
            /\ \A s \in Slugs :
                 balance'[s] = balance[s]
                   - SumOver(LegsOn(s, a, b),
                             [i \in TxnIds |-> txns[i].amount])]_vars

\* C15: a cancelTransfer on a stored transaction ends with NotATransfer
\* when the transaction has no linkedTransactionId or a source other than
\* transfer, with AlreadyCancelled when the given leg or its linked leg
\* carries cancelledAt, and with success only when both legs are
\* uncancelled transfer legs (a call that Firestore gives up on under
\* contention ends with neither).
C15_CancelTransferErrors ==
  [][\A i \in TxnIds :
       (Finishes /\ outcome'.op = "cancelTransfer" /\ outcome'.target = i) =>
         IF txns[i].source # "transfer" \/ txns[i].linkedTransactionId = NoId
         THEN outcome'.status = "NotATransfer"
         ELSE IF \/ txns[i].cancelledAt # NoTime
                 \/ txns[txns[i].linkedTransactionId].cancelledAt # NoTime
         THEN outcome'.status \in {"AlreadyCancelled", "Aborted"}
         ELSE outcome'.status \in {"ok", "Aborted"}]_vars

\* A cancelTransfer given a leg that is not cancelled itself, but whose
\* linked leg is, has ended with AlreadyCancelled in its first run.
C15_Witness ==
  /\ outcome.op = "cancelTransfer"
  /\ outcome.status = "AlreadyCancelled"
  /\ ~outcome.retried
  /\ outcome.target \in TxnIds
  /\ txns[outcome.target].cancelledAt = NoTime
  /\ txns[txns[outcome.target].linkedTransactionId].cancelledAt # NoTime

\* C16: verifyIntegrity(slug) passes exactly when the account exists, the
\* running sum of the amounts replayed in creation order equals every
\* stored balanceAfter, and the final sum equals the stored balance; when
\* it fails on a balanceAfter, the transaction it reports is the first one
\* in creation order whose balanceAfter differs from the running sum.
RunningSum(i) ==
  SumOver({j \in AccountTxnIds(txns[i].accountSlug) :
             txns[j].createdAt <= txns[i].createdAt},
          [j \in TxnIds |-> txns[j].amount])

Differs(slug) ==
  {i \in AccountTxnIds(slug) :
     ~txns[i].hasBalanceAfter \/ txns[i].balanceAfter # RunningSum(i)}

C16_VerifyIntegrity ==
  outcome.op = "verifyIntegrity" =>
    LET slug == outcome.slugs[1]
    IN /\ outcome.status = "pass" <=>
            /\ slug \in Slugs
            /\ Differs(slug) = {}
            /\ SumAmounts(slug) = balance[slug]
       /\ (slug \in Slugs /\ Differs(slug) # {}) =>
            /\ outcome.target \in Differs(slug)
            /\ \A j \in Differs(slug) :
                 txns[outcome.target].createdAt <= txns[j].createdAt
       /\ (slug \in Slugs /\ Differs(slug) = {}) => outcome.target = NoId

\* The check has failed on a ledger of three transactions stored newest
\* first whose oldest balanceAfter is right and whose two newer ones are
\* not: it reports the middle one.
C16_Witness ==
  /\ outcome.op = "verifyIntegrity"
  /\ outcome.status = "fail"
  /\ Len(txns) = 3
  /\ txns[1].createdAt = 3
  /\ Differs("cash") = {1, 2}
  /\ outcome.target = 2

\* C17: the session of (chat, A) is created, modified and deleted only by
\* handlers invoked for A's own events: every session stored under A's key
\* was created by A, and every step that changes the session under A's key
\* is a step of a handler handling an event of A; the sessions of two
\* actors of one chat exist side by side.
HandlesEventOf(u) ==
  \/ handleAddCommand(u)
  \/ handleSyncCommand(u)
  \/ \E slug \in Buttons : handleAccountCallback(u, slug)
  \/ \E slug \in Buttons : handleSyncAccountCallback(u, slug)
  \/ \E p \in Procs, text \in Texts : handleSessionMessage(p, u, text)
  \/ \E p \in Procs : deleteSession(p) /\ req[p].actor = u

C17_SessionsAreIsolated ==
  [][\A u \in Actors :
       LET key == getSessionKey(ChatId, u) IN
       /\ sessions'[key] # NoSession => sessions'[key].createdById = u
       /\ sessions'[key] # sessions[key] => HandlesEventOf(u)]_vars

\* u1 is at the description step of /add and u2 at the amount step of
\* /sync, after a flow of u2 has written a transaction.
C17_Witness ==
  /\ sessions[getSessionKey(ChatId, "u1")].step = "description"
  /\ sessions[getSessionKey(ChatId, "u1")].createdById = "u1"
  /\ sessions[getSessionKey(ChatId, "u2")].step = "sync_amount"
  /\ sessions[getSessionKey(ChatId, "u2")].createdById = "u2"
  /\ \E i \in TxnIds : txns[i].createdById = "u2"

C19_StartDiscardsSession ==
  [][\A u \in FlowUsers :
       (\/ handleAddCommand(u)
        \/ handleSyncCommand(u)
        \/ handleTransferCommand(u)
        \/ handleCancelCommand(u))
         => sessions'[getSessionKey(ChatId, u)] = NoSession]_vars

\* C20: at every numeric-input step (add amount, sync amount, transfer
\* amount, transfer received amount) a text that fails validation - not a
\* number, more than two decimals, magnitude above MAX_AMOUNT, zero at a
\* step other than sync, negative at a step other than add - is answered
\* with a message and leaves the sessions, the balances, the transactions
\* and the writes under way exactly as they were.
NumericSteps ==
  {"amount", "sync_amount", "transfer_amount", "transfer_received"}

FailsValidation(step, text) ==
  \/ text.nan
  \/ Len(text.decimals) > 2
  \/ Abs(parseFloat(text)) > MAX_AMOUNT * 1000
  \/ step # "sync_amount" /\ parseFloat(text) = 0
  \/ step # "amount" /\ parseFloat(text) < 0

C20_InvalidInputChangesNothing ==
  [][\A u \in FlowUsers :
       LET session == sessions[getSessionKey(ChatId, u)] IN
       session.step \in NumericSteps =>
         \A text \in {t \in Texts : FailsValidation(session.step, t)} :
           (IF session.step \in {"amount", "sync_amount"}
            THEN \E p \in FlowProcs : handleSessionMessage(p, u, text)
            ELSE \E p \in FlowProcs, rate \in Rates :
                   handleTransferMessage(p, u, text, rate))
             => /\ sessions' = sessions
                /\ balance' = balance
                /\ txns' = txns
                /\ pc' = pc
                /\ outcome'.op = "sendMessage"
                /\ outcome'.status \in {"invalidNumber", "maxDecimals",
                                         "maxAmount", "negativeNotAllowed",
                                         "maxBalance"}]_vars

\* The last answer is the rejection of a number above MAX_AMOUNT and the
\* transfer flow waits for the received amount the actor chose to type.
C20_Witness ==
  /\ outcome = Answer("sendMessage", "maxAmount", NoId)
  /\ sessions[getSessionKey(ChatId, "u1")].step = "transfer_received"
  /\ ~sessions[getSessionKey(ChatId, "u1")].hasReceivedAmount
  /\ sessions[getSessionKey(ChatId, "u1")].amount = 3
  /\ txns = <<>>

\* The written digits after the separator of the text's numeral.
WrittenDecimals(raw) == Numeral(Normalize(raw)).fraction

\* What the rules of the numeric steps say of a text at a step.
PassesRules(step, raw) ==
  \E text \in {ReadText(raw)} :
    /\ ~text.nan
    /\ WrittenDecimals(raw) <= 2
    /\ Abs(parseFloat(text)) <= MAX_AMOUNT * 1000
    /\ parseFloat(text) # 0 \/ step = "sync_amount"
    /\ parseFloat(text) >= 0 \/ step = "amount"

\* C21: at each numeric step a text is accepted if and only if it parses
\* as a number, has at most two decimal digits, is at most MAX_AMOUNT in
\* magnitude, is not zero unless the step is the sync amount and is not
\* negative unless the step is the add amount; and what is stored for an
\* accepted text is the text's number times 100, a whole number of minor
\* units.
C21_AcceptedIffValid ==
  [][\A p \in FlowProcs, u \in FlowUsers :
       LET key == getSessionKey(ChatId, u)
           step == sessions[key].step
           raw == req[p].text
           slug == sessions[key].accountSlug
           rejected == /\ sessions' = sessions
                       /\ pc' = pc
                       /\ outcome'.status \in
                            {"invalidNumber", "maxDecimals", "maxAmount",
                             "negativeNotAllowed", "maxBalance"}
           stored == CASE step = "amount" -> sessions'[key].amount
                       [] step = "sync_amount" ->
                            IF pc' # pc THEN balance[slug] + req'[p].amount
                            ELSE balance[slug]
                       [] step = "transfer_amount" -> sessions'[key].amount
                       [] step = "transfer_received" ->
                            sessions'[key].receivedAmount
       IN
       (/\ step \in {"amount", "sync_amount", "transfer_amount",
                     "transfer_received"}
        /\ onText(p, u))
         => /\ ~rejected <=> PassesRules(step, raw)
            /\ ~rejected => stored * 10 = parseFloat(ReadText(raw))]_vars

\* C22: when a ledger write of a terminal step fails, the session of the
\* key is discarded: no session is stored under the key after the failing
\* event.
C22_FailedCommitDiscardsSession ==
  [][\A p \in Procs :
       (/\ pc[p] \in {"createTransaction", "updateAccountBalance"}
        /\ WriteFails(p))
         => sessions'[req[p].sessionKey] = NoSession]_vars

\* The session refers to an account that is not in the store.
StaleReference(session) ==
  IF session.step \in {"description", "sync_amount"}
  THEN session.accountSlug \notin Slugs
  ELSE session.fromAccountSlug \notin Slugs
         \/ session.toAccountSlug \notin Slugs

\* The handler of the step gets as far as its lookup of the accounts: the
\* numeric steps validate the text first.
ReachesLookup(step, text) ==
  /\ step = "sync_amount" => syncAmountCheck(text) = "ok"
  /\ step = "transfer_amount" => transferAmountCheck(text) = "ok"

\* C23: when the text handler of a step that looks the session's accounts
\* up (add description, sync amount, transfer amount, transfer description)
\* finds that one of them is not in the store any more, the flow is aborted:
\* the session is deleted, no transaction is written, no balance is changed
\* and no write is begun.
C23_StaleAccountAbortsFlow ==
  [][\A u \in FlowUsers :
       LET sessionKey == getSessionKey(ChatId, u)
           session == sessions[sessionKey]
       IN
       (/\ session.step \in LookupSteps
        /\ StaleReference(session)
        /\ \E p \in FlowProcs, text \in Texts :
             /\ ReachesLookup(session.step, text)
             /\ \/ handleSessionMessage(p, u, text)
                \/ \E rate \in Rates : handleTransferMessage(p, u, text, rate))
         => /\ sessions'[sessionKey] = NoSession
            /\ txns' = txns
            /\ balance' = balance
            /\ pc' = pc
            /\ outcome'.status \in {"accountNotFound", "cancelled"}]_vars

\* The sync flow was aborted at its amount step: the session is gone and
\* nothing was written.
C23_Witness ==
  /\ outcome.status = "cancelled"
  /\ \A k \in SessionKeys : sessions[k] = NoSession
  /\ txns = <<>>
  /\ \A s \in Slugs : balance[s] = 0

\* C24: every transaction the list of /cancel offers was created by the
\* user who asked for it, is no cancellation and has no cancelledAt; the
\* list is ordered newest first and holds at most MAX_TRANSACTIONS_TO_SHOW
\* transactions.
C24_CancelListIsEligible ==
  [][\A u \in Actors :
       handleCancelCommand(u) =>
         LET buttons == outcome'.buttons IN
         /\ Len(buttons) <= MAX_TRANSACTIONS_TO_SHOW
         /\ \A j \in 1..Len(buttons) :
              /\ buttons[j] \in TxnIds
              /\ txns[buttons[j]].createdById = u
              /\ txns[buttons[j]].source # "cancellation"
              /\ txns[buttons[j]].cancelledAt = NoTime
         /\ \A j \in 1..Len(buttons), k \in 1..Len(buttons) :
              j < k => /\ buttons[j] # buttons[k]
                       /\ txns[buttons[j]].createdAt
                            >= txns[buttons[k]].createdAt]_vars

\* The list is full: the user has more transactions to cancel than it
\* holds, and the ledger has transactions of another user and reversals.
C24_Witness ==
  /\ Len(outcome.buttons) = MAX_TRANSACTIONS_TO_SHOW
  /\ txns[outcome.buttons[1]].createdById = "u1"
  /\ Cardinality({i \in TxnIds : /\ txns[i].createdById = "u1"
                                 /\ txns[i].source # "cancellation"
                                 /\ txns[i].cancelledAt = NoTime})
       > MAX_TRANSACTIONS_TO_SHOW
  /\ \E i \in TxnIds : txns[i].createdById = "u2"

\* C25: through the cancel flow only the author of a transaction cancels
\* it. A cancel:select or cancel:confirm callback of an actor who is not
\* the createdById of the transaction is answered with notYourTransaction
\* and changes nothing, and every reversal written has the createdById of
\* the original it reverses.
C25_OnlyAuthorCancels ==
  [][/\ \A p \in Procs, u \in Actors, i \in TxnIds :
          (/\ txns[i].createdById # u
           /\ \/ handleCancelSelectCallback(u, i)
              \/ handleCancelConfirmCallback(p, u, i))
            => /\ UNCHANGED <<balance, ver, txns, pc, req, loc, sessions>>
               /\ outcome'.status = "notYourTransaction"
     /\ txns' # txns =>
          \A i \in 1..Len(txns') :
            txns'[i].source = "cancellation" =>
              txns'[i].createdById
                = txns'[txns'[i].cancelledTransactionId].createdById]_vars

\* The confirmation of an actor who is not the author was rejected, in a
\* ledger in which an author has cancelled a transaction.
C25_Witness ==
  /\ outcome.op = "cancelConfirm"
  /\ outcome.status = "notYourTransaction"
  /\ \E i \in TxnIds : txns[i].source = "cancellation"
  /\ \E i \in TxnIds : txns[i].source # "cancellation" /\ txns[i].cancelledAt = NoTime

\* C30: the two legs of a transfer are both cancelled or both not
\* cancelled in every reachable state, whatever the operations applied
\* (cancelTransaction given the id of one leg included).
C30_LegsCancelledTogether ==
  \A i \in TxnIds :
    (/\ txns[i].source = "transfer"
     /\ txns[i].linkedTransactionId \in TxnIds)
      => (txns[i].cancelledAt = NoTime
            <=> txns[txns[i].linkedTransactionId].cancelledAt = NoTime)

\* C27: every session at step transfer_description holds a positive amount
\* and a positive receivedAmount, in whatever order the rate buttons were
\* pressed, and the engine is never called with an undefined toAmount.
C27_ReceivedAmountDefined ==
  /\ \A k \in SessionKeys :
       sessions[k].step = "transfer_description"
         => /\ sessions[k].amount > 0
            /\ sessions[k].hasReceivedAmount
            /\ sessions[k].receivedAmount > 0
  /\ \A p \in Procs : pc[p] # "toAmountUndefined"

\* The steps that wait for a text message.
TextSteps ==
  {"amount", "description", "sync_amount", "transfer_amount",
   "transfer_received", "transfer_description"}

\* The handler of the step the session is at, called with the text.
StepHandler(p, telegramUserId, text) ==
  LET sessionKey == getSessionKey(ChatId, telegramUserId)
      session == sessions[sessionKey]
  IN CASE session.step = "amount" ->
            handleAmountInput(sessionKey, session.accountSlug,
                              telegramUserId, text)
       [] session.step = "description" ->
            handleDescriptionInput(p, sessionKey, session.accountSlug,
                                   session.amount, telegramUserId)
       [] session.step = "sync_amount" ->
            handleSyncAmountInput(p, sessionKey, session.accountSlug,
                                  telegramUserId, text)
       [] session.step = "transfer_amount" ->
            /\ \E rate \in Rates :
                 handleTransferAmountInput(sessionKey, session, text, rate)
            /\ UNCHANGED <<pc, req>>
       [] session.step = "transfer_received" ->
            /\ handleTransferReceivedInput(sessionKey, session, text)
            /\ UNCHANGED <<pc, req>>
       [] session.step = "transfer_description" ->
            handleTransferDescriptionInput(p, sessionKey, session)

\* A transfer flow is under way: its session waits for a button or a text
\* (no handler is at work).
TransferUnderWay ==
  /\ \A p \in Procs : pc[p] = "idle"
  /\ \E u \in FlowUsers :
       StepOf(u) \in {"transfer_to", "transfer_amount", "transfer_received",
                      "transfer_description"}

\* A transfer flow has ended: its two legs are the newest documents, its
\* session is deleted and the handler has answered.
TransferDone ==
  /\ \A u \in FlowUsers : StepOf(u) = "none"
  /\ \A p \in Procs : pc[p] = "idle"
  /\ outcome.op = "recordTransfer" /\ outcome.status = "success"
  /\ Len(txns) >= 2
  /\ txns[Len(txns)].source = "transfer"
  /\ txns[Len(txns)].linkedTransactionId = Len(txns) - 1

C28_OneCommitPerFlow ==
  \A p \in Procs, q \in Procs :
    (/\ p # q
     /\ pc[p] \in {"updateAccountBalance", "deleteSession"}
     /\ pc[q] \in {"updateAccountBalance", "deleteSession"})
      => req[p].sessionKey # req[q].sessionKey

\* C29: when the sync flow writes its adjustment for an entered balance
\* N, the stored balance of the account right after the update equals N,
\* whatever was committed on the account since the handler read it.
C29_SyncSetsBalance ==
  [][\A p \in Procs :
       (updateAccountBalance(p) /\ req[p].source = "sync")
         => balance'[req[p].slug] = req[p].newBalanceMinor]_vars

\* C31: the amount step of /sync with an accepted balance N and a balance B
\* read from the account writes nothing and deletes the session when
\* N = B, and otherwise goes on to write one transaction with source sync
\* and amount N - B and then deletes the session; no sync transaction has
\* amount 0.
C31_SyncWritesTheDifference ==
  [][/\ (sessions' # sessions \/ pc' # pc) =>
          \A u \in Actors :
            LET sessionKey == getSessionKey(ChatId, u)
                session == sessions[sessionKey]
            IN (session.step = "sync_amount" /\ session.accountSlug \in Slugs)
                 => \A text \in {t \in Texts : syncAmountCheck(t) = "ok"} :
                      \A p \in Procs :
                        handleSessionMessage(p, u, text)
                          => IF toMinorUnits(parseFloat(text))
                                  = balance[session.accountSlug]
                             THEN /\ sessions'[sessionKey] = NoSession
                                  /\ UNCHANGED <<txns, balance, pc>>
                             ELSE /\ pc'[p] = "createTransaction"
                                  /\ req'[p].source = "sync"
                                  /\ req'[p].slug = session.accountSlug
                                  /\ req'[p].amount
                                       = toMinorUnits(parseFloat(text))
                                           - balance[session.accountSlug]
                                  /\ req'[p].sessionKey = sessionKey
                                  /\ UNCHANGED <<txns, balance>>
     /\ \A p \in Procs :
          (req[p].source = "sync" /\ txns' # txns /\ createTransaction(p))
            => /\ Len(txns') = Len(txns) + 1
               /\ SubSeq(txns', 1, Len(txns)) = txns
               /\ txns'[Len(txns')].source = "sync"
               /\ txns'[Len(txns')].accountSlug = req[p].slug
               /\ txns'[Len(txns')].amount = req[p].amount
               /\ pc'[p] = "updateAccountBalance"
     /\ \A p \in Procs :
          (req[p].source = "sync" /\ balance' # balance
             /\ updateAccountBalance(p))
            => /\ balance'[req[p].slug] = balance[req[p].slug] + req[p].amount
               /\ txns' = txns
               /\ pc'[p] = "deleteSession"
     /\ \A p \in Procs :
          (req[p].source = "sync" /\ pc[p] = "deleteSession"
             /\ deleteSession(p))
            => /\ sessions'[req[p].sessionKey] = NoSession
               /\ UNCHANGED <<txns, balance>>
     /\ txns' # txns =>
          \A i \in 1..Len(txns') :
            txns'[i].source = "sync" => txns'[i].amount # 0]_vars

\* A sync that entered the stored balance answered noChange in a ledger
\* that holds the adjustment of an earlier sync.
C31_Witness ==
  /\ outcome.status = "noChange"
  /\ \A k \in SessionKeys : sessions[k] = NoSession
  /\ \E i \in TxnIds : txns[i].source = "sync" /\ txns[i].amount = 3
  /\ balance["cash"] = 3

\* C32: the steps of /add follow each other as account selection, amount,
\* description. A session reaches the description step only from the
\* amount step of the same account, the writes of a manual transaction
\* begin only at a text handled while the session of the key is at the
\* description step, with the account and the amount that session holds,
\* the transaction written carries them, and the handler that wrote it
\* deletes the session.
C32_AddStepsInOrder ==
  [][/\ sessions' # sessions =>
          \A k \in SessionKeys :
            sessions'[k] # sessions[k] =>
              /\ sessions'[k].step = "amount" => sessions'[k].amount = 0
              /\ sessions'[k].step = "description"
                   => /\ sessions[k].step = "amount"
                      /\ sessions'[k].accountSlug = sessions[k].accountSlug
                      /\ sessions'[k].createdById = sessions[k].createdById
                      /\ sessions'[k].amount # 0
     /\ pc' # pc =>
          \A p \in Procs :
            (/\ pc[p] = "idle"
             /\ pc'[p] = "createTransaction"
             /\ req'[p].source = "manual")
              => LET session == sessions[req'[p].sessionKey] IN
                 /\ session.step = "description"
                 /\ req'[p].slug = session.accountSlug
                 /\ req'[p].amount = session.amount
                 /\ req'[p].actor = session.createdById
                 /\ UNCHANGED <<txns, balance>>
     /\ txns' # txns =>
          /\ \A i \in (Len(txns) + 1)..Len(txns') :
               txns'[i].source = "manual"
                 => \E p \in Procs : /\ pc[p] = "createTransaction"
                                     /\ req[p].source = "manual"
                                     /\ createTransaction(p)
          /\ \A p \in Procs :
               (req[p].source = "manual" /\ createTransaction(p))
                 => /\ Len(txns') = Len(txns) + 1
                    /\ SubSeq(txns', 1, Len(txns)) = txns
                    /\ txns'[Len(txns')].source = "manual"
                    /\ txns'[Len(txns')].accountSlug = req[p].slug
                    /\ txns'[Len(txns')].amount = req[p].amount
                    /\ txns'[Len(txns')].createdById = req[p].actor
     /\ \A p \in Procs :
          (req[p].source = "manual" /\ pc[p] = "deleteSession"
             /\ deleteSession(p))
            => /\ sessions'[req[p].sessionKey] = NoSession
               /\ UNCHANGED <<txns, balance>>]_vars

\* The add flow has ended: the amount typed at the amount step is in the
\* ledger, on the account of the button, and the session is deleted.
C32_Witness ==
  /\ outcome.op = "manual" /\ outcome.status = "success"
  /\ \A k \in SessionKeys : sessions[k] = NoSession
  /\ Len(txns) = 1
  /\ txns[1].source = "manual" /\ txns[1].amount = -2
  /\ txns[1].accountSlug = "cash"
  /\ balance["cash"] = -2

\* The accounts of the session both exist and hold the same currency.
SameCurrency(session) ==
  /\ session.fromAccountSlug \in Slugs
  /\ session.toAccountSlug \in Slugs
  /\ AccountCurrency(session.fromAccountSlug)
       = AccountCurrency(session.toAccountSlug)

\* C33: in the transfer flow a valid amount for two accounts of one currency
\* moves the session from transfer_amount straight to transfer_description
\* with receivedAmount equal to amount, whatever the provider would have
\* answered (it is not asked); for accounts of different currencies a valid
\* amount moves the session to transfer_received, and a session enters
\* transfer_description only from transfer_received.
C33_SameCurrencySkipsRate ==
  [][sessions' # sessions =>
       /\ \A u \in Actors :
            LET sessionKey == getSessionKey(ChatId, u)
                session == sessions[sessionKey]
            IN (/\ session.step = "transfer_amount"
                /\ session.fromAccountSlug \in Slugs
                /\ session.toAccountSlug \in Slugs)
                 => \A text \in {t \in Texts : transferAmountCheck(t) = "ok"} :
                      \A rate \in Rates : \A p \in Procs :
                        handleTransferMessage(p, u, text, rate)
                          => IF SameCurrency(session)
                             THEN sessions'[sessionKey] =
                                    [session EXCEPT
                                       !.step = "transfer_description",
                                       !.amount =
                                          toMinorUnits(parseFloat(text)),
                                       !.hasReceivedAmount = TRUE,
                                       !.receivedAmount =
                                          toMinorUnits(parseFloat(text))]
                             ELSE /\ sessions'[sessionKey].step
                                       = "transfer_received"
                                  /\ sessions'[sessionKey].amount
                                       = toMinorUnits(parseFloat(text))
                                  /\ sessions'[sessionKey].fromAccountSlug
                                       = session.fromAccountSlug
                                  /\ sessions'[sessionKey].toAccountSlug
                                       = session.toAccountSlug
       /\ \A k \in SessionKeys :
            (/\ sessions'[k].step = "transfer_description"
             /\ sessions[k].step # "transfer_description"
             /\ ~SameCurrency(sessions'[k]))
              => /\ sessions[k].step = "transfer_received"
                 /\ sessions[k].fromAccountSlug = sessions'[k].fromAccountSlug
                 /\ sessions[k].toAccountSlug = sessions'[k].toAccountSlug
       /\ \A k \in SessionKeys :
            (/\ sessions'[k].step = "transfer_description"
             /\ sessions[k].step # "transfer_description"
             /\ SameCurrency(sessions'[k]))
              => /\ sessions[k].step = "transfer_amount"
                 /\ sessions'[k].receivedAmount = sessions'[k].amount]_vars

\* A session of two accounts in one currency is at the description step
\* with the amount typed as its received amount.
C33_Witness ==
  \E k \in SessionKeys :
    /\ sessions[k].step = "transfer_description"
    /\ sessions[k].fromAccountSlug = "card"
    /\ sessions[k].toAccountSlug = "bank"
    /\ sessions[k].amount = 3
    /\ sessions[k].hasReceivedAmount
    /\ sessions[k].receivedAmount = 3

\* C34: getExchangeRate answers null for every failure of the provider (it
\* throws, the response is not OK, the rate is missing) and never raises;
\* with that answer a valid amount moves the session to transfer_received
\* with the amount and without receivedAmount and nothing is written or
\* begun; from there a valid received amount moves the session to
\* transfer_description with that amount, and the description text begins
\* the transfer of the two amounts.
C34_UnavailableAsksTheActor ==
  [][(sessions' # sessions \/ pc' # pc) =>
       \A u \in Actors :
         LET sessionKey == getSessionKey(ChatId, u)
             session == sessions[sessionKey]
             from == session.fromAccountSlug
             to == session.toAccountSlug
             ValidTexts == {t \in Texts : transferAmountCheck(t) = "ok"}
         IN (from \in Slugs /\ to \in Slugs
               /\ AccountCurrency(from) # AccountCurrency(to))
            => /\ (session.step = "transfer_amount" /\ pc' = pc) =>
                    /\ \A answer \in ProviderAnswers :
                         \E rate \in {getExchangeRate(AccountCurrency(from),
                                        AccountCurrency(to), answer)} :
                           /\ rate # Raised
                           /\ (answer.throws \/ ~answer.ok
                                 \/ ~answer.hasRate) => rate = NoRate
                    /\ \A text \in ValidTexts : \A p \in FlowProcs :
                         handleTransferMessage(p, u, text, NoRate)
                           => /\ sessions'[sessionKey] =
                                   [session EXCEPT
                                      !.step = "transfer_received",
                                      !.amount =
                                         toMinorUnits(parseFloat(text)),
                                      !.hasReceivedAmount = FALSE,
                                      !.receivedAmount = 0]
                              /\ UNCHANGED <<txns, balance, pc, req>>
               /\ (session.step = "transfer_received" /\ pc' = pc
                     /\ ~session.hasReceivedAmount) =>
                    \A text \in ValidTexts : \A p \in FlowProcs :
                      handleTransferMessage(p, u, text, NoRate)
                        => /\ sessions'[sessionKey] =
                                [session EXCEPT
                                   !.step = "transfer_description",
                                   !.hasReceivedAmount = TRUE,
                                   !.receivedAmount =
                                      toMinorUnits(parseFloat(text))]
                           /\ UNCHANGED <<txns, balance, pc, req>>
               /\ (session.step = "transfer_description" /\ pc' # pc
                     /\ session.hasReceivedAmount) =>
                    \A text \in ValidTexts : \A p \in FlowProcs :
                      handleTransferMessage(p, u, text, NoRate)
                        => /\ pc'[p] = "run"
                           /\ req'[p].op = "recordTransfer"
                           /\ req'[p].slug = from /\ req'[p].toSlug = to
                           /\ req'[p].amount = session.amount
                           /\ req'[p].toAmount = session.receivedAmount
                           /\ UNCHANGED <<txns, balance>>]_vars

\* A transfer of 0.03 from cash with 0.03 received on card is committed and
\* its session deleted: the provider offers 0 or 0.04 for it, so the
\* received amount was typed.
C34_Witness ==
  /\ \A k \in SessionKeys : sessions[k] = NoSession
  /\ \A p \in Procs : pc[p] = "idle"
  /\ \E i, j \in TxnIds :
       /\ txns[i].source = "transfer" /\ txns[j].source = "transfer"
       /\ txns[i].accountSlug = "cash" /\ txns[i].amount = -3
       /\ txns[j].accountSlug = "card" /\ txns[j].amount = 3
       /\ txns[i].linkedTransactionId = j

\* C35: no step deletes a transaction or changes what it was created with
\* (account, amount, currency, source, creation time, creator, balanceAfter,
\* the link to the other leg, the pointer to the transaction it reverses);
\* a step changes a transaction only by setting cancelledAt and
\* cancelledByTxnId, both at once, on a transaction that had neither.
C35_TransactionsAreImmutable ==
  [][txns' # txns =>
       /\ Len(txns') >= Len(txns)
       /\ \A i \in TxnIds :
            /\ [txns'[i] EXCEPT !.cancelledAt = NoTime,
                                !.cancelledByTxnId = NoId]
                 = [txns[i] EXCEPT !.cancelledAt = NoTime,
                                   !.cancelledByTxnId = NoId]
            /\ txns'[i] # txns[i]
                 => /\ txns[i].cancelledAt = NoTime
                    /\ txns[i].cancelledByTxnId = NoId
                    /\ txns'[i].cancelledAt # NoTime
                    /\ txns'[i].cancelledByTxnId # NoId]_vars

\* Both legs of a transfer have been cancelled and hold their markers next
\* to what they were created with.
C35_Witness ==
  \E i, j \in TxnIds :
    /\ txns[i].source = "transfer" /\ txns[i].linkedTransactionId = j
    /\ txns[j].linkedTransactionId = i /\ i < j
    /\ txns[i].cancelledAt # NoTime /\ txns[j].cancelledAt # NoTime
    /\ txns[i].amount < 0 /\ txns[j].amount > 0
    /\ txns[txns[i].cancelledByTxnId].cancelledTransactionId = i
    /\ txns[txns[j].cancelledByTxnId].cancelledTransactionId = j

\* C36: every session that holds a destination account holds a different
\* source account, every engine call of the transfer flow names two
\* different accounts, and the two legs of every committed transfer are on
\* different accounts.
C36_TransferBetweenTwoAccounts ==
  /\ \A k \in SessionKeys :
       sessions[k].toAccountSlug # ""
         => /\ sessions[k].fromAccountSlug # ""
            /\ sessions[k].toAccountSlug # sessions[k].fromAccountSlug
  /\ \A p \in Procs :
       req[p].op = "recordTransfer" => req[p].slug # req[p].toSlug
  /\ \A i \in TxnIds :
       (txns[i].source = "transfer" /\ txns[i].linkedTransactionId # NoId)
         => txns[i].accountSlug
              # txns[txns[i].linkedTransactionId].accountSlug

\* The description step has called the engine for a transfer from card to
\* bank.
C36_Witness ==
  \E p \in Procs :
    /\ pc[p] = "run" /\ req[p].op = "recordTransfer"
    /\ req[p].slug = "card" /\ req[p].toSlug = "bank"
    /\ req[p].sessionKey \in SessionKeys
    /\ sessions[req[p].sessionKey].step = "transfer_description"

\* C37: a received amount held by a session is positive, the automatically
\* converted one included, and every committed transfer has a negative
\* outgoing leg and a positive incoming leg.
C37_LegsHaveTheirSigns ==
  /\ \A k \in SessionKeys :
       sessions[k].hasReceivedAmount => sessions[k].receivedAmount > 0
  /\ \A i \in TxnIds :
       txns[i].source = "transfer"
         => IF txns[i].transferType = "outgoing"
            THEN txns[i].amount < 0 ELSE txns[i].amount > 0

\* C38: verifyAccountIntegrity passes for every account after any sequence
\* of successful recordTransaction calls, also for an account that
\* createAccount stored with an initial balance and no transaction.
C38_VerifyPassesOnCreatedAccount ==
  (outcome.op = "verifyIntegrity" /\ outcome.slugs[1] \in Slugs)
    => outcome.status = "pass"

\* The flow a session step belongs to.
FlowKind(step) ==
  IF step \in {"amount", "description"} THEN "add"
  ELSE IF step = "sync_amount" THEN "sync"
  ELSE IF step = "none" THEN "none"
  ELSE "transfer"

\* C39: an account-selection callback that arrives while the key holds a
\* session of another flow leaves that session as it is: no step turns a
\* session of one flow into a session of another flow.
C39_CallbackKeepsOtherFlow ==
  [][\A k \in SessionKeys :
       (FlowKind(sessions[k].step) # "none"
          /\ FlowKind(sessions'[k].step) # "none")
         => FlowKind(sessions'[k].step) = FlowKind(sessions[k].step)]_vars

\* C40: the list of /cancel is the user's MAX_TRANSACTIONS_TO_SHOW newest
\* transactions that can be cancelled (fewer when there are fewer), however
\* many of the user's more recent transactions are reversals or cancelled;
\* it is empty only when the user has none that can be cancelled.
C40_ListShowsNewestEligible ==
  [][\A u \in Actors :
       handleCancelCommand(u) =>
         /\ outcome'.buttons
              = Slice(SelectSeq(getUserTransactions(u, Len(txns)),
                                Cancellable),
                      MAX_TRANSACTIONS_TO_SHOW)
         /\ outcome'.status = "noTransactions"
              <=> ~\E i \in TxnIds : txns[i].createdById = u /\ Cancellable(i)
    ]_vars

\* C3: when no handler is between its writes, also after a write has
\* failed, every stored transaction has changed its account's balance by
\* its amount and every change of a balance has its transaction stored.
C3_AllOrNothing ==
  (\A p \in Procs : pc[p] = "idle") =>
     \A s \in Slugs : balance[s] = SumAmounts(s)

TypeOK ==
  /\ \A s \in Slugs : balance[s] \in Int /\ ver[s] \in Nat
  /\ \A p \in Procs :
       pc[p] \in {"idle", "run", "commit", "createTransaction",
                  "updateAccountBalance", "deleteSession",
                  "toAmountUndefined"}
  /\ \A k \in SessionKeys :
       sessions[k].step \in {"none", "amount", "description", "sync_amount",
                             "transfer_to", "transfer_amount",
                             "transfer_received", "transfer_description"}
  /\ NumCommits <= MaxCommits
====
